---- MODULE Spec2Model ----
(***************************************************************************)
(* Model of the data-profiling pipeline of src/utils/advancedDataAnalysis  *)
(* (type detection, quality summary, cleaning) as the application drives   *)
(* it: ingestion, then cleaning of the ingested rows.                      *)
(*                                                                         *)
(* JavaScript values are records [t, n, s]: t is the run-time type, n the  *)
(* number (fixed point, in 1/256) or the boolean as 0/1, s the string as *)
(* a sequence of one-character strings.  Every number the model meets is a *)
(* dyadic rational with at most eight fractional bits, so the arithmetic of *)
(* the doubles of the source is exact on it.                               *)
(***************************************************************************)
EXTENDS Integers, Sequences, FiniteSets

VARIABLES
  data,             \* the parsed rows: dataset.data, an array of row objects
  types,            \* dataset.types
  summary,          \* dataset.summary
  cleanedData,      \* the array performAdvancedCleaning returned
  kept,             \* which row objects of data cleanedData holds, in its order
  transformations,  \* the transformation log of that call
  input,            \* history: the cell values of data as parsed
  recleaned,        \* the array a second call returned, given cleanedData
  relog,            \* the transformation log of that second call
  pc,               \* "upload", "ingested", "cleaned", then "recleaned",
                    \* "analysed" or "selected"
  insights,         \* what generateAdvancedEDAInsights returned, or that it raised
  featureSelection, \* the correlationMatrix selectBestFeatures returned
  trainInput,       \* trainModels: the rows and numeric feature columns given
  mlResults,        \* trainModels: the list returned, and what was thrown
  trainPc,          \* "idle", "trained"
  app,              \* the state of the App component
  scheduled,        \* the timers and promises that have not fired yet
  issued,           \* the number of ingestions started
  lastEvent,        \* the handler or callback that ran last
  call,             \* a function called on its own: its name and arguments
  result            \* what that call returned

analysisVars == <<insights, featureSelection>>

pipelineVars == <<data, types, summary, cleanedData, kept, transformations,
                  input, recleaned, relog, pc, analysisVars>>

trainVars == <<trainInput, mlResults, trainPc>>

appVars == <<app, scheduled, issued, lastEvent>>

callVars == <<call, result>>

vars == <<pipelineVars, trainVars, appVars, callVars>>

----------------------------------------------------------------------------
(* JavaScript values *)

Undefined == [t |-> "undefined", n |-> 0, s |-> <<>>]

Null == [t |-> "null", n |-> 0, s |-> <<>>]

NaN == [t |-> "NaN", n |-> 0, s |-> <<>>]

\* a number given in units of 1/256
Num(k) == [t |-> "number", n |-> k, s |-> <<>>]

\* the number of the integer i
IntNum(i) == Num(i * 256)

Bool(b) == [t |-> "boolean", n |-> IF b THEN 1 ELSE 0, s |-> <<>>]

Str(cs) == [t |-> "string", n |-> 0, s |-> cs]

EmptyString == Str(<<>>)

\* !!v
Truthy(v) ==
  CASE v.t = "undefined" -> FALSE
    [] v.t = "null" -> FALSE
    [] v.t = "NaN" -> FALSE
    [] v.t = "number" -> v.n # 0
    [] v.t = "boolean" -> v.n = 1
    [] v.t = "string" -> v.s # <<>>

\* v != null
NotNullish(v) == v.t \notin {"undefined", "null"}

\* !isNaN(v) && isFinite(v), for v the result of Number(...)
IsValidNumber(v) == v.t = "number"

----------------------------------------------------------------------------
(* Strings *)

Digits == <<"0", "1", "2", "3", "4", "5", "6", "7", "8", "9">>

IsDigit(c) == \E i \in 1..10 : Digits[i] = c

DigitVal(c) == (CHOOSE i \in 1..10 : Digits[i] = c) - 1

Upper == <<"A", "B", "C", "D", "E", "F", "G", "H", "I", "J", "K", "L", "M",
           "N", "O", "P", "Q", "R", "S", "T", "U", "V", "W", "X", "Y", "Z">>

Lower == <<"a", "b", "c", "d", "e", "f", "g", "h", "i", "j", "k", "l", "m",
           "n", "o", "p", "q", "r", "s", "t", "u", "v", "w", "x", "y", "z">>

LowerChar(c) ==
  IF \E i \in 1..26 : Upper[i] = c
    THEN Lower[CHOOSE i \in 1..26 : Upper[i] = c]
    ELSE c

\* s.toLowerCase()
ToLowerCase(cs) == [i \in 1..Len(cs) |-> LowerChar(cs[i])]

\* s.replace(/[,$%\s]/g, '')
RECURSIVE StripFormat(_)
StripFormat(cs) ==
  IF cs = <<>> THEN <<>>
  ELSE IF Head(cs) \in {",", "$", "%", " "} THEN StripFormat(Tail(cs))
  ELSE <<Head(cs)>> \o StripFormat(Tail(cs))

RECURSIVE TrimLeft(_)
TrimLeft(cs) ==
  IF cs # <<>> /\ Head(cs) = " " THEN TrimLeft(Tail(cs)) ELSE cs

RECURSIVE TrimRight(_)
TrimRight(cs) ==
  IF cs # <<>> /\ cs[Len(cs)] = " "
    THEN TrimRight(SubSeq(cs, 1, Len(cs) - 1))
    ELSE cs

Trim(cs) == TrimRight(TrimLeft(cs))

AllDigits(cs) == \A i \in 1..Len(cs) : IsDigit(cs[i])

RECURSIVE DigitsValue(_)
DigitsValue(cs) ==
  IF cs = <<>> THEN 0
  ELSE DigitsValue(SubSeq(cs, 1, Len(cs) - 1)) * 10 + DigitVal(cs[Len(cs)])

RECURSIVE Pow10(_)
Pow10(k) == IF k = 0 THEN 1 ELSE 10 * Pow10(k - 1)

\* position of the first "." of cs, or 0
DotAt(cs) ==
  IF \E i \in 1..Len(cs) : cs[i] = "."
    THEN CHOOSE i \in 1..Len(cs) :
           cs[i] = "." /\ \A j \in 1..(i - 1) : cs[j] # "."
    ELSE 0

\* the value of the integer digits ip and the fraction digits fp
DecimalValue(ip, fp) ==
  IF (ip = <<>> /\ fp = <<>>) \/ ~AllDigits(ip) \/ ~AllDigits(fp)
    THEN NaN
    ELSE Num(DigitsValue(ip) * 256 + (DigitsValue(fp) * 256) \div Pow10(Len(fp)))

\* cs split at the point at position d (0: no point)
DecimalAt(cs, d) ==
  IF d = 0 THEN DecimalValue(cs, <<>>)
  ELSE DecimalValue(SubSeq(cs, 1, d - 1), SubSeq(cs, d + 1, Len(cs)))

\* an unsigned decimal literal: digits, optionally a point and digits
UnsignedToNumber(cs) == DecimalAt(cs, DotAt(cs))

\* the number u under the sign of the trimmed, non-empty literal t
Signed(t, u) ==
  IF Head(t) = "-" /\ u.t = "number" THEN Num(0 - u.n) ELSE u

\* the trimmed string t as a number
TrimmedToNumber(t) ==
  IF t = <<>> THEN Num(0)
  ELSE Signed(t, UnsignedToNumber(IF Head(t) \in {"-", "+"} THEN Tail(t) ELSE t))

\* Number(s) for a string s: surrounding blanks are dropped, the empty string
\* is 0, a signed decimal literal is its value, anything else is NaN.
\* (Exponents, hexadecimal literals and "Infinity" are outside the alphabet
\* of the cells the model draws.)
StringToNumber(cs) == TrimmedToNumber(Trim(cs))

\* Number(v)
ToNumber(v) ==
  CASE v.t = "undefined" -> NaN
    [] v.t = "null" -> Num(0)
    [] v.t = "NaN" -> NaN
    [] v.t = "number" -> v
    [] v.t = "boolean" -> Num(v.n * 256)
    [] v.t = "string" -> StringToNumber(v.s)

RECURSIVE NatToChars(_)
NatToChars(k) ==
  IF k < 10 THEN <<Digits[k + 1]>>
  ELSE NatToChars(k \div 10) \o <<Digits[(k % 10) + 1]>>

\* the decimal digits of f/256, f in 0..255
RECURSIVE FractionDigits(_)
FractionDigits(f) ==
  IF f = 0 THEN <<>>
  ELSE <<Digits[((f * 10) \div 256) + 1]>> \o FractionDigits((f * 10) % 256)

\* String(x) for a number x given in units of 1/256
NumberToString(k) ==
  LET a == IF k < 0 THEN 0 - k ELSE k
      f == a % 256
  IN (IF k < 0 THEN <<"-">> ELSE <<>>)
       \o NatToChars(a \div 256)
       \o (IF f = 0 THEN <<>> ELSE <<".">> \o FractionDigits(f))

\* String(v)
StringOf(v) ==
  CASE v.t = "undefined" -> <<"u", "n", "d", "e", "f", "i", "n", "e", "d">>
    [] v.t = "null" -> <<"n", "u", "l", "l">>
    [] v.t = "NaN" -> <<"N", "a", "N">>
    [] v.t = "number" -> NumberToString(v.n)
    [] v.t = "boolean" ->
         IF v.n = 1 THEN <<"t", "r", "u", "e">> ELSE <<"f", "a", "l", "s", "e">>
    [] v.t = "string" -> v.s

----------------------------------------------------------------------------
(* simple-statistics, as the source calls it *)

\* x.slice().sort((a, b) => a - b) on numbers
RECURSIVE SortNumbers(_)
SortNumbers(xs) ==
  IF xs = <<>> THEN <<>>
  ELSE LET rest == SortNumbers(SubSeq(xs, 1, Len(xs) - 1))
           e == xs[Len(xs)]
           k == Cardinality({j \in 1..Len(rest) : rest[j] <= e})
       IN SubSeq(rest, 1, k) \o <<e>> \o SubSeq(rest, k + 1, Len(rest))

\* ss.quantileSorted(x, p) for p = pn/pd strictly between 0 and 1, x not
\* empty: idx = x.length * p; a fractional idx takes x[ceil(idx) - 1], a whole
\* idx on an even length averages x[idx - 1] and x[idx] (0-based).
quantileSorted(x, pn, pd) ==
  LET whole == (Len(x) * pn) % pd = 0
      idx == (Len(x) * pn) \div pd
  IN IF ~whole THEN x[idx + 1]
     ELSE IF Len(x) % 2 = 0 THEN (x[idx] + x[idx + 1]) \div 2
     ELSE x[idx + 1]

\* ss.quantile(values, p)
quantile(values, pn, pd) == quantileSorted(SortNumbers(values), pn, pd)

\* ss.median(values)
median(values) == quantile(values, 1, 2)

\* na - nb for two Number-converted operands; a NaN result counts as 0
MinusOrZero(na, nb) ==
  IF na.t = "number" /\ nb.t = "number" THEN na.n - nb.n ELSE 0

\* the comparator (a, b) => a - b of numericSort on arbitrary values
CompareByMinus(a, b) == MinusOrZero(ToNumber(a), ToNumber(b))

\* numericSort(x) on arbitrary values: a stable sort by the comparator above
RECURSIVE numericSort(_)
numericSort(xs) ==
  IF xs = <<>> THEN <<>>
  ELSE LET rest == numericSort(SubSeq(xs, 1, Len(xs) - 1))
           e == xs[Len(xs)]
           below == {j \in 1..Len(rest) : CompareByMinus(rest[j], e) <= 0}
           k == IF below = {} THEN 0
                ELSE CHOOSE j \in below : \A m \in below : m <= j
       IN SubSeq(rest, 1, k) \o <<e>> \o SubSeq(rest, k + 1, Len(rest))

\* the loop of ss.modeSorted from index i on: a run ends where the next
\* element differs (or the array ends); the first longest run wins
RECURSIVE ModeLoop(_, _, _, _, _, _)
ModeLoop(sorted, i, last, value, maxSeen, seenThis) ==
  IF i > Len(sorted) + 1 THEN value
  ELSE IF i = Len(sorted) + 1 \/ sorted[i] # last \/ last.t = "NaN"
    THEN ModeLoop(sorted, i + 1,
                  IF i <= Len(sorted) THEN sorted[i] ELSE Undefined,
                  IF seenThis > maxSeen THEN last ELSE value,
                  IF seenThis > maxSeen THEN seenThis ELSE maxSeen,
                  1)
    ELSE ModeLoop(sorted, i + 1, last, value, maxSeen, seenThis + 1)

\* ss.modeSorted(sorted), sorted not empty
modeSorted(sorted) ==
  IF Len(sorted) = 1 THEN sorted[1]
  ELSE ModeLoop(sorted, 2, sorted[1], NaN, 0, 1)

\* ss.mode(values)
mode(values) == modeSorted(numericSort(values))

----------------------------------------------------------------------------
(* The dataset: rows are functions from the columns to values *)

Columns == <<"x", "y">>

ColumnSet == {Columns[i] : i \in 1..Len(Columns)}

ColumnTypes == {"numeric", "categorical", "datetime", "boolean"}

\* data.map(row => row[column])
ColumnValues(rows, column) == [i \in 1..Len(rows) |-> rows[i][column]]

Min(a, b) == IF a <= b THEN a ELSE b

----------------------------------------------------------------------------
(* detectAdvancedDataTypes *)

SampleSize == 1000

NullWord == <<"n", "u", "l", "l">>

UndefinedWord == <<"u", "n", "d", "e", "f", "i", "n", "e", "d">>

\* v != null && v !== '' && v !== 'null' && v !== 'undefined'
IsSampled(v) ==
  /\ NotNullish(v)
  /\ v # EmptyString
  /\ v # Str(NullWord)
  /\ v # Str(UndefinedWord)

BooleanTokens ==
  { <<"t", "r", "u", "e">>, <<"f", "a", "l", "s", "e">>, <<"y", "e", "s">>,
    <<"n", "o">>, <<"1">>, <<"0">>, <<"y">>, <<"n">> }

IsBooleanValue(v) ==
  \/ v.t = "boolean"
  \/ (v.t = "string" /\ ToLowerCase(v.s) \in BooleanTokens)

IsNumericValue(v) ==
  \/ v.t \in {"number", "NaN"}
  \/ /\ v.t = "string"
     /\ LET cleaned == StripFormat(v.s)
        IN IsValidNumber(StringToNumber(cleaned)) /\ cleaned # <<>>

\* a string with every digit replaced by "d"
Shape(cs) == [i \in 1..Len(cs) |-> IF IsDigit(cs[i]) THEN "d" ELSE cs[i]]

\* the anchored datePatterns, as shapes
DateShapes ==
  { <<"d", "d", "d", "d", "-", "d", "d", "-", "d", "d">>,
    <<"d", "d", "/", "d", "d", "/", "d", "d", "d", "d">>,
    <<"d", "/", "d", "d", "/", "d", "d", "d", "d">>,
    <<"d", "d", "/", "d", "/", "d", "d", "d", "d">>,
    <<"d", "/", "d", "/", "d", "d", "d", "d">>,
    <<"d", "d", "d", "d", "/", "d", "d", "/", "d", "d">>,
    <<"d", "d", "-", "d", "d", "-", "d", "d", "d", "d">>,
    <<"d", "d", "/", "d", "d", "/", "d", "d">> }

\* /^\d{4}-\d{2}-\d{2}T\d{2}:\d{2}:\d{2}/ (a prefix)
IsoPrefixShape ==
  <<"d", "d", "d", "d", "-", "d", "d", "-", "d", "d", "T",
    "d", "d", ":", "d", "d", ":", "d", "d">>

MatchesDatePattern(cs) ==
  \/ Shape(cs) \in DateShapes
  \/ /\ Len(cs) >= Len(IsoPrefixShape)
     /\ SubSeq(Shape(cs), 1, Len(IsoPrefixShape)) = IsoPrefixShape

\* !isNaN(Date.parse(v)) && Date.parse(v) > 0.  What Date.parse makes of a
\* string that is no ISO date is left to the engine: a string without any
\* digit is no date in any engine, one with digits is a date when the engine
\* is lenient.
DateParses(cs, lenient) == lenient /\ \E i \in 1..Len(cs) : IsDigit(cs[i])

IsDateValue(v, lenient) ==
  v.t = "string" /\ (MatchesDatePattern(v.s) \/ DateParses(v.s, lenient))

\* booleanValues.length / sampleValues.length > 0.8
ExceedsBooleanRatio(count, total) == count * 10 > 8 * total

\* numericRatio > 0.8
ExceedsNumericRatio(count, total) == count * 10 > 8 * total

\* dateValues.length / sampleValues.length > 0.7
ExceedsDateRatio(count, total) == count * 10 > 7 * total

\* the body of columns.forEach in detectAdvancedDataTypes
DetectColumnType(rows, column, lenient) ==
  LET sample == SubSeq(rows, 1, Min(SampleSize, Len(rows)))
      sampleValues == SelectSeq(ColumnValues(sample, column), IsSampled)
      booleanValues == SelectSeq(sampleValues, IsBooleanValue)
      numericValues == SelectSeq(sampleValues, IsNumericValue)
      dateValues == SelectSeq(sampleValues, LAMBDA v : IsDateValue(v, lenient))
  IN IF Len(sampleValues) = 0 THEN "categorical"
     ELSE IF ExceedsBooleanRatio(Len(booleanValues), Len(sampleValues))
       THEN "boolean"
     ELSE IF ExceedsNumericRatio(Len(numericValues), Len(sampleValues))
       THEN "numeric"
     ELSE IF ExceedsDateRatio(Len(dateValues), Len(sampleValues))
       THEN "datetime"
     ELSE "categorical"

detectAdvancedDataTypes(rows, lenient) ==
  [c \in ColumnSet |-> DetectColumnType(rows, c, lenient)]

----------------------------------------------------------------------------
(* calculateAdvancedSummary: the missing-value and duplicate counts *)

\* !row[col] || row[col] === '' || row[col] === null || row[col] === undefined
CountedMissing(v) ==
  ~Truthy(v) \/ v = EmptyString \/ v = Null \/ v = Undefined

\* strs.join('|')
RECURSIVE JoinBar(_)
JoinBar(strs) ==
  IF strs = <<>> THEN <<>>
  ELSE IF Len(strs) = 1 THEN strs[1]
  ELSE strs[1] \o <<"|">> \o JoinBar(Tail(strs))

\* columns.map(col => String(row[col] || '')).join('|')
RowKey(row) ==
  JoinBar([i \in 1..Len(Columns) |->
             IF Truthy(row[Columns[i]]) THEN StringOf(row[Columns[i]]) ELSE <<>>])

\* the indices whose key no earlier row has: the rows the seen-set lets pass
FirstOfKey(rows) ==
  {i \in 1..Len(rows) : \A j \in 1..(i - 1) : RowKey(rows[j]) # RowKey(rows[i])}

\* the numbers (in 1/256) of the valid ones among Number-converted cells
ValidNumbers(nums) ==
  LET valid == SelectSeq(nums, IsValidNumber)
  IN [i \in 1..Len(valid) |-> valid[i].n]

\* typeof val === 'string' ? Number(val.replace(/[,$%\s]/g, '')) : Number(val)
CleanedNumber(val) ==
  IF val.t = "string" THEN StringToNumber(StripFormat(val.s)) ELSE ToNumber(val)

\* lowerBound and upperBound of the quartiles q1 and q3
Fences(q1, q3) ==
  [ lowerBound |-> q1 - (3 * (q3 - q1)) \div 2,
    upperBound |-> q3 + (3 * (q3 - q1)) \div 2 ]

\* the IQR fences of step 3 for the valid values of a column
IqrBounds(values) == Fences(quantile(values, 1, 4), quantile(values, 3, 4))

\* the greatest common divisor of two naturals
RECURSIVE Gcd(_, _)
Gcd(a, b) == IF b = 0 THEN a ELSE Gcd(b, a % b)

Abs(k) == IF k < 0 THEN 0 - k ELSE k

RECURSIVE GcdOfAll(_)
GcdOfAll(values) ==
  IF values = <<>> THEN 0
  ELSE Gcd(GcdOfAll(Tail(values)), Abs(Head(values)))

\* The three estimators compare ratios of differences of the values, which a
\* common factor of the values leaves as they are: the values divided by
\* their greatest common divisor and multiplied by `times`.
Rescaled(values, times) ==
  IF GcdOfAll(values) = 0 THEN values
  ELSE [i \in 1..Len(values) |-> (values[i] \div GcdOfAll(values)) * times]

RECURSIVE Sum(_)
Sum(values) == IF values = <<>> THEN 0 ELSE Head(values) + Sum(Tail(values))

SumOfSquares(values) == Sum([i \in 1..Len(values) |-> values[i] * values[i]])

CountOutside(values, b) ==
  Cardinality({i \in 1..Len(values) :
                 values[i] < b.lowerBound \/ values[i] > b.upperBound})

detectIQROutliers(values) ==
  IF Len(values) < 4 THEN 0 ELSE CountOutside(values, IqrBounds(values))

\* |v - mean| / std > 3 for mean = total / n and the population standard
\* deviation std = sqrt(n * squares - total^2) / n; spread is n^2 * std^2
ZScoreCount(v, n, total, spread) ==
  IF spread = 0 THEN 0
  ELSE Cardinality({i \in 1..n :
                      (n * v[i] - total) * (n * v[i] - total) > 9 * spread})

ZScoreOf(v) ==
  ZScoreCount(v, Len(v), Sum(v), Len(v) * SumOfSquares(v) - Sum(v) * Sum(v))

detectZScoreOutliers(values) ==
  IF Len(values) < 3 THEN 0 ELSE ZScoreOf(Rescaled(values, 1))

\* |0.6745 * (v - median) / mad| > 3.5, deviations and mad both doubled
ModifiedZCount(deviations, mad) ==
  IF mad = 0 THEN 0
  ELSE Cardinality({i \in 1..Len(deviations) :
                      1349 * deviations[i] > 7000 * mad})

ModifiedZOfDeviations(deviations) == ModifiedZCount(deviations, median(deviations))

\* the doubled distances of the (doubled) values v from their median m
DoubledDeviations(v, m) == [i \in 1..Len(v) |-> 2 * Abs(v[i] - m)]

ModifiedZOf(v) == ModifiedZOfDeviations(DoubledDeviations(v, median(v)))

detectModifiedZScoreOutliers(values) ==
  IF Len(values) < 3 THEN 0 ELSE ModifiedZOf(Rescaled(values, 2))

Min3(a, b, c) == Min(a, Min(b, c))

\* the outliers one numeric column adds to the count
OutliersOfValues(values) ==
  IF Len(values) > 0
    THEN Min3(detectIQROutliers(values), detectZScoreOutliers(values),
              detectModifiedZScoreOutliers(values))
    ELSE 0

\* the valid numbers of a column as the outlier count collects them
SummaryValues(rows, column) ==
  ValidNumbers([i \in 1..Len(rows) |-> CleanedNumber(rows[i][column])])

RECURSIVE CountOutliers(_, _, _)
CountOutliers(rows, tys, k) ==
  IF k = 0 THEN 0
  ELSE CountOutliers(rows, tys, k - 1)
         + (IF tys[Columns[k]] = "numeric"
              THEN OutliersOfValues(SummaryValues(rows, Columns[k]))
              ELSE 0)

calculateAdvancedSummary(rows, tys) ==
  [ totalRows |-> Len(rows),
    totalColumns |-> Len(Columns),
    missingValues |->
      Cardinality({<<i, c>> \in (1..Len(rows)) \X ColumnSet :
                     CountedMissing(rows[i][c])}),
    duplicates |-> Len(rows) - Cardinality(FirstOfKey(rows)),
    outliers |-> CountOutliers(rows, tys, Len(Columns)) ]

\* a score as the fraction num / den; den = 0 stands for NaN
Fraction(num, den) == [num |-> num, den |-> den]

\* Math.max(0, Math.min(100, score)), score = num / den with den > 0
Clamp(num, den) ==
  IF num > 100 * den THEN Fraction(100 * den, den)
  ELSE IF num < 0 THEN Fraction(0, den)
  ELSE Fraction(num, den)

\* the score with validity left at 1
calculateDataQualityScore_IgnoringOutliers(s, totalRows, totalColumns) ==
  IF totalRows * totalColumns = 0 THEN Fraction(0, 0)
  ELSE Clamp(10 * (4 * (totalRows * totalColumns - s.missingValues)
                     + 3 * totalColumns * (totalRows - s.duplicates)
                     + 3 * totalColumns * totalRows),
             totalRows * totalColumns)

\* (completeness * 0.4 + uniqueness * 0.3 + validity * 0.3) * 100 over the
\* denominator totalRows * totalColumns; a zero denominator makes it NaN,
\* which Math.max and Math.min hand on
calculateDataQualityScore(s, totalRows, totalColumns) ==
  IF totalRows * totalColumns = 0 THEN Fraction(0, 0)
  ELSE Clamp(10 * (4 * (totalRows * totalColumns - s.missingValues)
                     + 3 * totalColumns * (totalRows - s.duplicates)
                     + 3 * totalColumns * (totalRows - s.outliers)),
             totalRows * totalColumns)

\* { ...summary, dataQualityScore: calculateDataQualityScore(...) }
WithScore(s) ==
  [ totalRows |-> s.totalRows, totalColumns |-> s.totalColumns,
    missingValues |-> s.missingValues, duplicates |-> s.duplicates,
    outliers |-> s.outliers,
    dataQualityScore |->
      calculateDataQualityScore(s, s.totalRows, s.totalColumns) ]

\* the summary of the dataset processFileData returns
SummaryOf(rows, tys) == WithScore(calculateAdvancedSummary(rows, tys))

----------------------------------------------------------------------------
(* performAdvancedCleaning.  The rows are objects shared between the input  *)
(* array and the array returned: `rows` below is the input array with its   *)
(* row objects as the call leaves them, `kept` the indices of the row       *)
(* objects the returned array holds, in its order.                          *)

Entry(column, transformation, value, count, lowerBound, upperBound) ==
  [ column |-> column, transformation |-> transformation, value |-> value,
    count |-> count, lowerBound |-> lowerBound, upperBound |-> upperBound ]

\* !row[column] || row[column] === '' || row[column] === null
IsMissingCell(v) == ~Truthy(v) \/ v = EmptyString \/ v = Null

MissingIndices(rows, column) ==
  {i \in 1..Len(rows) : IsMissingCell(rows[i][column])}

\* v != null && v !== ''
IsModeCandidate(v) == NotNullish(v) /\ v # EmptyString

\* missingIndices.forEach(index => cleanedData[index][column] = value)
FillMissing(rows, column, missing, value) ==
  [i \in 1..Len(rows) |->
     IF i \in missing THEN [rows[i] EXCEPT ![column] = value] ELSE rows[i]]

\* the cells filled and the entry pushed; st = [rows, log]
Impute(st, column, missing, transformation, value) ==
  [ rows |-> FillMissing(st.rows, column, missing, value),
    log |-> Append(st.log,
              Entry(column, transformation, value, Cardinality(missing), 0, 0)) ]

\* the numeric branch of step 1, validValues in units of 1/256
ImputeMedian(st, column, missing, validValues) ==
  IF Len(validValues) > 0
    THEN Impute(st, column, missing, "median_imputation", Num(median(validValues)))
    ELSE st

\* the other branch of step 1
ImputeMode(st, column, missing, validValues) ==
  IF Len(validValues) > 0
    THEN Impute(st, column, missing, "mode_imputation", mode(validValues))
    ELSE st

\* step 1 for a column with the missing indices and the cells given
ImputeMissing(st, column, tys, missing, vals) ==
  IF missing = {} THEN st
  ELSE IF tys[column] = "numeric"
    THEN ImputeMedian(st, column, missing,
           ValidNumbers([i \in 1..Len(vals) |-> ToNumber(vals[i])]))
    ELSE ImputeMode(st, column, missing, SelectSeq(vals, IsModeCandidate))

\* step 1 for one column; st = [rows, log]
ImputeColumn(st, column, tys) ==
  ImputeMissing(st, column, tys, MissingIndices(st.rows, column),
                ColumnValues(st.rows, column))

\* step 1: columns.forEach over the first k columns
RECURSIVE ImputeColumns(_, _, _)
ImputeColumns(st, k, tys) ==
  IF k = 0 THEN st
  ELSE ImputeColumn(ImputeColumns(st, k - 1, tys), Columns[k], tys)

\* the members of a set of indices in increasing order
RECURSIVE Ascending(_)
Ascending(S) ==
  IF S = {} THEN <<>>
  ELSE LET m == CHOOSE i \in S : \A j \in S : j <= i
       IN Append(Ascending(S \ {m}), m)

\* step 2 with the indices pushed to uniqueData given
KeepUnique(st, uniqueData) ==
  [ rows |-> st.rows,
    kept |-> uniqueData,
    log |-> IF Len(uniqueData) < Len(st.rows)
              THEN Append(st.log,
                     Entry("all", "duplicate_removal", Undefined,
                           Len(st.rows) - Len(uniqueData), 0, 0))
              ELSE st.log ]

\* step 2: the indices pushed to uniqueData, and the log
RemoveDuplicates(st) == KeepUnique(st, Ascending(FirstOfKey(st.rows)))

\* the guard of step 3 letting a column of 10 valid values through
EnoughForCapping_AtLeastTen(n) == n >= 10

\* values.length > 10
EnoughForCapping(n) == n > 10

\* the valid values of every parsed row, removed duplicates included
CappingValues_AllRows(rows, idx, column) ==
  ValidNumbers([i \in 1..Len(rows) |-> CleanedNumber(rows[i][column])])

\* the valid values step 3 collects from the rows of cleanedData
CappingValues(rows, idx, column) ==
  ValidNumbers([i \in 1..Len(idx) |-> CleanedNumber(rows[idx[i]][column])])

\* !isNaN(val) && (val < lowerBound || val > upperBound), val = Number(cell)
IsOutlier(val, b) ==
  val.t = "number" /\ (val.n < b.lowerBound \/ val.n > b.upperBound)

\* Number(row[column]) < lowerBound ? lowerBound : upperBound
CappedValue(val, b) ==
  IF val.n < b.lowerBound THEN Num(b.lowerBound) ELSE Num(b.upperBound)

\* the cells of the outliers replaced and the entry pushed
CapOutliers(st, column, b, outliersHandled) ==
  [ rows |-> [i \in 1..Len(st.rows) |->
                IF i \in outliersHandled
                  THEN [st.rows[i] EXCEPT
                          ![column] = CappedValue(ToNumber(st.rows[i][column]), b)]
                  ELSE st.rows[i]],
    kept |-> st.kept,
    log |-> IF outliersHandled # {}
              THEN Append(st.log,
                     Entry(column, "outlier_capping", Undefined,
                           Cardinality(outliersHandled),
                           b.lowerBound, b.upperBound))
              ELSE st.log ]

\* cleanedData.forEach of step 3 with the fences b
CapWithin(st, column, b) ==
  CapOutliers(st, column, b,
              {st.kept[k] : k \in {j \in 1..Len(st.kept) :
                 IsOutlier(ToNumber(st.rows[st.kept[j]][column]), b)}})

\* step 3 for a column with its valid values given
CapValues(st, column, values) ==
  IF EnoughForCapping(Len(values))
    THEN CapWithin(st, column, IqrBounds(values))
    ELSE st

\* step 3 for one column; st = [rows, kept, log]
CapColumn(st, column, tys) ==
  IF tys[column] = "numeric"
    THEN CapValues(st, column, CappingValues(st.rows, st.kept, column))
    ELSE st

RECURSIVE CapColumns(_, _, _)
CapColumns(st, k, tys) ==
  IF k = 0 THEN st
  ELSE CapColumn(CapColumns(st, k - 1, tys), Columns[k], tys)

TrueTokens == { <<"t", "r", "u", "e">>, <<"y", "e", "s">>, <<"1">>, <<"y">> }

\* step 4 for one cell of a row of cleanedData
NormalizeCell(v, type) ==
  IF type = "numeric"
    THEN IF v.t = "string" THEN StringToNumber(StripFormat(v.s)) ELSE v
  ELSE IF type = "boolean"
    THEN Bool(ToLowerCase(StringOf(v)) \in TrueTokens)
  ELSE v

\* step 4; st = [rows, kept, log]
NormalizeTypes(st, tys) ==
  [ rows |-> [i \in 1..Len(st.rows) |->
                IF \E k \in 1..Len(st.kept) : st.kept[k] = i
                  THEN [c \in ColumnSet |-> NormalizeCell(st.rows[i][c], tys[c])]
                  ELSE st.rows[i]],
    kept |-> st.kept,
    log |-> st.log ]

\* steps 1 and 2: cleanedData and the log where step 3 starts
BeforeCapping(rows, tys) ==
  RemoveDuplicates(ImputeColumns([rows |-> rows, log |-> <<>>], Len(Columns), tys))

\* what the call returns and leaves behind: rows (the input array
\* afterwards), data (the array returned) and transformations
Returned(st) ==
  [ rows |-> st.rows,
    kept |-> st.kept,
    data |-> [i \in 1..Len(st.kept) |-> st.rows[st.kept[i]]],
    transformations |-> st.log ]

\* the four steps in the order of the source
performAdvancedCleaning(rows, tys) ==
  Returned(NormalizeTypes(CapColumns(BeforeCapping(rows, tys), Len(Columns), tys),
                          tys))

----------------------------------------------------------------------------
(* Correlation matrices: calculateCorrelationMatrix of the summarizer and    *)
(* the matrix of selectBestFeatures.  A coefficient r is kept exactly, as    *)
(* its sign and the reduced fraction p / q = r * r.                          *)

Corr(sign, p, q) == [t |-> "number", sign |-> sign, p |-> p, q |-> q]

CorrOne == Corr(1, 1, 1)

CorrZero == Corr(0, 0, 1)

CorrNaN == [t |-> "NaN", sign |-> 0, p |-> 0, q |-> 1]

\* the call did not return: an Error was thrown
CorrThrows == [t |-> "throws", sign |-> 0, p |-> 0, q |-> 1]

Sign(k) == IF k > 0 THEN 1 ELSE IF k < 0 THEN 0 - 1 ELSE 0

ReducedBy(a, b, g) == [num |-> a \div g, den |-> b \div g]

\* the fraction a / b in lowest terms, b > 0
Reduced(a, b) == ReducedBy(a, b, Gcd(a, b))

ProductOf(f, g) == Reduced(f.num * g.num, f.den * g.den)

CorrOfSquare(sign, f) == Corr(sign, f.num, f.den)

\* n / sqrt(va * vb) for va, vb > 0
CorrRatio(n, va, vb) ==
  CorrOfSquare(Sign(n), ProductOf(Reduced(Abs(n), va), Reduced(Abs(n), vb)))

\* sum of x[i] * y[i] over the first n elements
RECURSIVE SumOfProducts(_, _, _)
SumOfProducts(x, y, n) ==
  IF n = 0 THEN 0 ELSE SumOfProducts(x, y, n - 1) + x[n] * y[n]

\* n times the sum of (x[i] - mean(x)) * (y[i] - mean(y)), n = Len(x) = Len(y)
CoSpread(x, y) == Len(x) * SumOfProducts(x, y, Len(x)) - Sum(x) * Sum(y)

\* sampleCovariance / (sampleStandardDeviation(x) * sampleStandardDeviation(y)):
\* 0 / 0 is NaN
CovarianceOverDeviations(cov, va, vb) ==
  IF va = 0 \/ vb = 0 THEN CorrNaN ELSE CorrRatio(cov, va, vb)

SampleCorrelationOf(x, y) ==
  CovarianceOverDeviations(CoSpread(x, y), CoSpread(x, x), CoSpread(y, y))

\* ss.sampleCorrelation(x, y): sampleCovariance throws on samples of unequal
\* lengths and on fewer than two points
sampleCorrelation(x, y) ==
  IF Len(x) # Len(y) \/ Len(x) < 2 THEN CorrThrows
  ELSE SampleCorrelationOf(Rescaled(x, 1), Rescaled(y, 1))

\* data.map(row => Number(row[col])).filter(v => !isNaN(v))
NumberCells(rows, column) ==
  ValidNumbers([i \in 1..Len(rows) |-> ToNumber(rows[i][column])])

\* one entry of calculateCorrelationMatrix, given the two filtered series
CorrelationOfCells(values1, values2, same) ==
  IF Len(values1) > 1 /\ Len(values2) > 1
    THEN sampleCorrelation(values1, values2)
    ELSE IF same THEN CorrOne ELSE CorrZero

\* columns.filter(col => types[col] === 'numeric'), as a set
NumericColumns(tys) == {c \in ColumnSet : tys[c] = "numeric"}

calculateCorrelationMatrix(rows, columns) ==
  [pr \in columns \X columns |->
     CorrelationOfCells(NumberCells(rows, pr[1]), NumberCells(rows, pr[2]),
                        pr[1] = pr[2])]

NoMatrix == [pr \in {} |-> CorrZero]

\* an entry that threw ends the call
InsightsOf(correlations) ==
  IF \E pr \in DOMAIN correlations : correlations[pr].t = "throws"
    THEN [raised |-> TRUE, correlations |-> NoMatrix]
    ELSE [raised |-> FALSE, correlations |-> correlations]

\* generateAdvancedEDAInsights: its correlations, or that it raised.  The
\* per-column statistics guard their empty and constant cases (lines 481,
\* 638, 645, 719) and do not raise.
generateAdvancedEDAInsights(rows, tys) ==
  InsightsOf(calculateCorrelationMatrix(rows, NumericColumns(tys)))

\* sum over the first n elements of (n * x[i] - sx) * (n * y[i] - sy)
RECURSIVE SumOfDeltas(_, _, _, _, _, _)
SumOfDeltas(x, y, n, sx, sy, k) ==
  IF k = 0 THEN 0
  ELSE SumOfDeltas(x, y, n, sx, sy, k - 1) + (n * x[k] - sx) * (n * y[k] - sy)

\* denominator === 0 ? 0 : numerator / denominator
NumeratorOverDenominator(numerator, sumXSquared, sumYSquared) ==
  IF sumXSquared = 0 \/ sumYSquared = 0 THEN CorrZero
  ELSE CorrRatio(numerator, sumXSquared, sumYSquared)

\* the loop of calculateCorrelation over the first n elements, the means
\* being the sums of all of x and of all of y over n
CorrelationLoop(x, y, n) ==
  IF n = 0 THEN CorrZero
  ELSE NumeratorOverDenominator(SumOfDeltas(x, y, n, Sum(x), Sum(y), n),
                                SumOfDeltas(x, x, n, Sum(x), Sum(x), n),
                                SumOfDeltas(y, y, n, Sum(y), Sum(y), n))

calculateCorrelation(x, y) ==
  CorrelationLoop(Rescaled(x, 1), Rescaled(y, 1), Min(Len(x), Len(y)))

\* one entry of the matrix of selectBestFeatures
FeatureCorrelation(values1, values2) ==
  IF Len(values1) = 0 \/ Len(values2) = 0 THEN CorrZero
  ELSE calculateCorrelation(values1, values2)

FeatureMatrix(rows, numericColumns) ==
  IF Cardinality(numericColumns) < 2 THEN NoMatrix
  ELSE [pr \in numericColumns \X numericColumns |->
          FeatureCorrelation(NumberCells(rows, pr[1]), NumberCells(rows, pr[2]))]

\* selectBestFeatures(...).correlationMatrix
selectBestFeatures(rows, tys) == FeatureMatrix(rows, NumericColumns(tys))

----------------------------------------------------------------------------
(* trainModels.  The classifiers are taken by what the aggregation sees of   *)
(* them: whether fit or predict threw, and how many of the test rows the     *)
(* predictions got right.                                                    *)

ModelNames == <<"Random Forest", "Logistic Regression", "Decision Tree">>

\* X.length === 0 || X[0].length === 0, with only the row count tested
ReturnsEmpty_RowsOnly(rows, features) == rows = 0

\* X.length === 0 || X[0].length === 0
ReturnsEmpty(rows, features) == rows = 0 \/ features = 0

\* Math.floor(X.length * 0.8)
SplitIndex(rows) == (rows * 8) \div 10

\* y = data.map((_, index) => index % 2): the test rows whose label is 0,
\* which a prediction of all zeros gets right
ZeroLabels(rows) ==
  Cardinality({i \in SplitIndex(rows)..(rows - 1) : i % 2 = 0})

\* the numbers of test rows a classifier may get right: a tree fitted to an
\* empty training split is the leaf 0 and predicts 0 for every row
TreeOutcomes(rows) ==
  IF SplitIndex(rows) = 0 THEN {ZeroLabels(rows)}
  ELSE 0..(rows - SplitIndex(rows))

\* LogisticRegression.fit reads X[0].length: a TypeError on an empty split
LogisticThrows(rows) == SplitIndex(rows) = 0

\* accuracy = (tp + tn) / (tp + fp + tn + fn) || 0
Accuracy(correct, total) ==
  IF total = 0 \/ correct = 0 THEN Fraction(0, 1) ELSE Fraction(correct, total)

\* a.accuracy > b.accuracy
MoreAccurate(a, b) == a.accuracy.num * b.accuracy.den > b.accuracy.num * a.accuracy.den

ModelResult(name, accuracy) ==
  [name |-> name, accuracy |-> accuracy, recommended |-> FALSE]

\* models.reduce((best, current) => current.accuracy >= best.accuracy ? ...)
RECURSIVE BestIndex_LastWins(_, _)
BestIndex_LastWins(models, k) ==
  IF k = 1 THEN 1
  ELSE IF ~MoreAccurate(models[BestIndex_LastWins(models, k - 1)], models[k])
    THEN k
    ELSE BestIndex_LastWins(models, k - 1)

\* models.reduce((best, current) => current.accuracy > best.accuracy ?
\* current : best) over the first k models: the index of the result
RECURSIVE BestIndex(_, _)
BestIndex(models, k) ==
  IF k = 1 THEN 1
  ELSE IF MoreAccurate(models[k], models[BestIndex(models, k - 1)])
    THEN k
    ELSE BestIndex(models, k - 1)

\* bestModel.recommended = true
MarkRecommended(models, best) ==
  [i \in 1..Len(models) |-> [models[i] EXCEPT !.recommended = (i = best)]]

\* the sorted list `sorted` with the model m inserted behind every model
\* that is not less accurate
InsertByAccuracy(sorted, m) ==
  SubSeq(sorted, 1, Cardinality({j \in 1..Len(sorted) : ~MoreAccurate(m, sorted[j])}))
    \o <<m>>
    \o SubSeq(sorted, Cardinality({j \in 1..Len(sorted) : ~MoreAccurate(m, sorted[j])}) + 1,
              Len(sorted))

\* models.sort((a, b) => b.accuracy - a.accuracy): stable, descending
RECURSIVE SortByAccuracy(_)
SortByAccuracy(models) ==
  IF models = <<>> THEN <<>>
  ELSE InsertByAccuracy(SortByAccuracy(SubSeq(models, 1, Len(models) - 1)),
                        models[Len(models)])

\* lines 640-648
Aggregate(models) ==
  IF Len(models) > 0
    THEN SortByAccuracy(MarkRecommended(models, BestIndex(models, Len(models))))
    ELSE <<>>

\* the models pushed by the three try blocks; correct[i] is the number of
\* test rows model i got right
PushedModels(rows, correct) ==
  <<ModelResult(ModelNames[1], Accuracy(correct[1], rows - SplitIndex(rows)))>>
    \o (IF LogisticThrows(rows) THEN <<>>
        ELSE <<ModelResult(ModelNames[2], Accuracy(correct[2], rows - SplitIndex(rows)))>>)
    \o <<ModelResult(ModelNames[3], Accuracy(correct[3], rows - SplitIndex(rows)))>>

\* trainModels: the list returned, the models whose try block threw, and
\* whether the call itself raised
trainModels(rows, features, correct) ==
  IF ReturnsEmpty(rows, features)
    THEN [models |-> <<>>, thrown |-> {}, raised |-> FALSE]
    ELSE [ models |-> Aggregate(PushedModels(rows, correct)),
           thrown |-> IF LogisticThrows(rows) THEN {ModelNames[2]} ELSE {},
           raised |-> FALSE ]

----------------------------------------------------------------------------
(* The datasets the model draws.  A cell of a CSV file is a string, or      *)
(* absent (undefined) in a row shorter than the header, which the first row *)
(* never is since the columns are its keys; a cell of the database source   *)
(* is a number, a boolean or a string.                                      *)

MaxRows == 3

MaxDetectRows == 10

MaxCapRows == 11

MaxIdentical == 10

Row(xv, yv) == [c \in ColumnSet |-> IF c = "x" THEN xv ELSE yv]

\* "r1", "r2", ...: a cell that keeps rows distinct
RowId(i) == Str(<<"r">> \o NatToChars(i))

CityCells == { Str(<<"N", "Y">>), Str(<<"L", "A">>) }

BarCells == { Str(<<"c">>), Str(<<"b", "|", "c">>) }

\* each family: the cells of column x and of column y
Families ==
  { [x |-> {Str(<<"2", "5">>), Str(<<"4", "0">>), EmptyString}, y |-> CityCells],
    [x |-> {Str(<<"2", "5">>), EmptyString, Undefined}, y |-> CityCells],
    [x |-> {Str(<<"t", "r", "u", "e">>), Str(<<"f", "a", "l", "s", "e">>),
            EmptyString}, y |-> CityCells],
    [x |-> {Str(<<"a", "|", "b">>), Str(<<"a">>), EmptyString}, y |-> BarCells],
    [x |-> {Str(NullWord), Str(<<"a">>), Undefined}, y |-> BarCells],
    [x |-> {Bool(TRUE), Bool(FALSE), IntNum(0)}, y |-> CityCells],
    [x |-> {IntNum(7), IntNum(0), IntNum(40)}, y |-> CityCells] }

SmallDatasets ==
  UNION { UNION { { d \in [1..n -> {Row(xv, yv) : xv \in f.x, yv \in f.y}] :
                      d[1]["x"] # Undefined }
                  : n \in 1..MaxRows }
          : f \in Families }

\* columns for type detection: b boolean tokens, then m numbers, d dates and
\* t words, and at most one empty cell at the end
KindCell(k) ==
  CASE k = "boolean" -> Str(<<"y", "e", "s">>)
    [] k = "numeric" -> Str(<<"7">>)
    [] k = "datetime" -> Str(<<"2", "0", "2", "4", "-", "0", "1", "-", "0", "5">>)
    [] k = "text" -> Str(<<"a", "b", "c">>)
    [] k = "empty" -> EmptyString

KindAt(i, b, m, d, t) ==
  IF i <= b THEN "boolean"
  ELSE IF i <= b + m THEN "numeric"
  ELSE IF i <= b + m + d THEN "datetime"
  ELSE IF i <= b + m + d + t THEN "text"
  ELSE "empty"

DetectDatasets ==
  { [i \in 1..n |-> Row(KindCell(KindAt(i, q[1], q[2], q[3], q[4])), RowId(i))] :
      <<n, q>> \in
        { <<n, q>> \in (1..MaxDetectRows)
                          \X ((0..MaxDetectRows) \X (0..MaxDetectRows)
                                \X (0..MaxDetectRows) \X (0..MaxDetectRows)) :
            q[1] + q[2] + q[3] + q[4] \in {n - 1, n} } }

\* columns for outlier capping: a base pattern and a last cell
BaseCell(p, i) ==
  CASE p = "ones" -> IntNum(1)
    [] p = "oneStrings" -> Str(<<"1">>)
    [] p = "ramp" -> Str(NatToChars(i))

\* the last cell: as a CSV file or a spreadsheet holds it beside the pattern
TailCells(p) ==
  IF p = "ones"
    THEN { IntNum(100), IntNum(1), Str(<<"1", ",", "0", "0", "0">>) }
    ELSE { Str(<<"1", "0", "0">>), Str(<<"1">>), Str(<<"1", ",", "0", "0", "0">>) }

CapDatasets ==
  { [i \in 1..n |-> Row(IF i < n THEN BaseCell(q[1], i) ELSE q[2], RowId(i))] :
      <<n, q>> \in (10..MaxCapRows)
                     \X UNION { {<<p, tl>> : tl \in TailCells(p)} :
                                p \in {"ones", "oneStrings", "ramp"} } }

\* n copies of one row
IdenticalDatasets ==
  { [i \in 1..n |-> Row(xv, Str(<<"N", "Y">>))] :
      <<n, xv>> \in (2..MaxIdentical) \X {Str(<<"2", "5">>), EmptyString, IntNum(7)} }

\* two numeric columns of CorrRows rows: x counts up, y follows a pattern;
\* badX and badY are the rows (0: none) whose cell is no number
CorrRows == 6

CorrCell(p, i) ==
  CASE p = "count" -> Str(NatToChars(i))
    [] p = "swap" -> Str(NatToChars(IF i % 2 = 1 THEN i + 1 ELSE i - 1))
    [] p = "constant" -> Str(<<"3">>)

NoNumber == Str(<<"a", "b", "c">>)

CorrDatasets ==
  { [i \in 1..q[1] |->
       Row(IF i = q[3] THEN NoNumber ELSE CorrCell("count", i),
           IF i = q[4] THEN NoNumber ELSE CorrCell(q[2], i))] :
      q \in ({CorrRows} \X {"count", "swap", "constant"}
               \X (0..CorrRows) \X (0..CorrRows))
            \cup ({1, 2} \X {"count", "constant"} \X {0} \X {0}) }

\* scenario A of the specification: age and city
ScenarioA ==
  << Row(Str(<<"2", "5">>), Str(<<"N", "Y">>)),
     Row(Str(<<"3", "0">>), Str(<<"N", "Y">>)),
     Row(EmptyString, Str(<<"L", "A">>)),
     Row(Str(<<"4", "0">>), Str(<<"L", "A">>)) >>

\* a ramp 1..10 and 100 in column x, with the cell of row `missing` empty
\* and row `copied` repeated at the end (0: none)
OrderedRow(i, missing) ==
  Row(IF i = missing THEN EmptyString
      ELSE IF i = 11 THEN Str(<<"1", "0", "0">>) ELSE Str(NatToChars(i)),
      RowId(i))

OrderDatasets ==
  { [i \in 1..(IF q[2] = 0 THEN 11 ELSE 12) |->
       OrderedRow(IF i = 12 THEN q[2] ELSE i, q[1])] :
      q \in {0, 3} \X {0, 5, 11} }

Datasets ==
  SmallDatasets \cup DetectDatasets \cup CapDatasets \cup IdenticalDatasets
    \cup CorrDatasets \cup OrderDatasets \cup {ScenarioA}

----------------------------------------------------------------------------
(* The pipeline *)

NoTypes == [c \in ColumnSet |-> "none"]

NoSummary ==
  [ totalRows |-> 0, totalColumns |-> 0, missingValues |-> 0, duplicates |-> 0,
    outliers |-> 0, dataQualityScore |-> Fraction(0, 0) ]

NoInsights == [raised |-> FALSE, correlations |-> NoMatrix]

NoResults == [models |-> <<>>, thrown |-> {}, raised |-> FALSE]

NoDataset == [id |-> 0, source |-> "none", file |-> 0, types |-> NoTypes]

NoAnalysis == [from |-> 0, modelResults |-> <<>>]

\* the useState initial values; cleanedData and analysisResults.from name
\* the dataset they were computed from, realTimeInterval the import that set
\* the interval up (0: null)
AppStart ==
  [ currentStep |-> 0, dataset |-> NoDataset, cleanedData |-> 0,
    analysisResults |-> NoAnalysis, isProcessing |-> FALSE,
    completedSteps |-> <<>>, isRealTimeEnabled |-> FALSE,
    realTimeInterval |-> 0 ]

\* no function called on its own
CallIdle ==
  /\ call = [op |-> "none"]
  /\ result = [op |-> "none"]

\* the application as mounted
AppIdle ==
  /\ app = AppStart
  /\ scheduled = {}
  /\ issued = 0
  /\ lastEvent = "mount"

\* no training requested
TrainIdle ==
  /\ trainInput = [rows |-> 0, features |-> 0]
  /\ mlResults = NoResults
  /\ trainPc = "idle"

Init ==
  /\ data \in Datasets
  /\ input = data
  /\ types = NoTypes
  /\ summary = NoSummary
  /\ cleanedData = <<>>
  /\ kept = <<>>
  /\ transformations = <<>>
  /\ recleaned = <<>>
  /\ relog = <<>>
  /\ pc = "upload"
  /\ insights = NoInsights
  /\ featureSelection = NoMatrix
  /\ TrainIdle
  /\ AppIdle
  /\ CallIdle

\* processFileData / connectToDatabase: types and summary of the parsed rows
ProcessFileData ==
  /\ pc = "upload"
  /\ Len(data) # 0
  /\ \E lenient \in BOOLEAN :
       \E tys \in {detectAdvancedDataTypes(data, lenient)} :
         /\ types' = tys
         /\ summary' = SummaryOf(data, tys)
  /\ pc' = "ingested"
  /\ UNCHANGED <<data, cleanedData, kept, transformations, input, recleaned, relog,
               analysisVars, trainVars, appVars, callVars>>

\* the deferred callback of handleFileUpload: clean the ingested rows
CleanIngested ==
  /\ pc = "ingested"
  /\ \E r \in {performAdvancedCleaning(data, types)} :
       /\ data' = r.rows
       /\ cleanedData' = r.data
       /\ kept' = r.kept
       /\ transformations' = r.transformations
  /\ pc' = "cleaned"
  /\ UNCHANGED <<types, summary, input, recleaned, relog,
               analysisVars, trainVars, appVars, callVars>>

\* performAdvancedCleaning called on a copy of the cleaned rows
CleanAgain ==
  /\ pc = "cleaned"
  /\ \E r \in {performAdvancedCleaning(cleanedData, types)} :
       /\ recleaned' = r.data
       /\ relog' = r.transformations
  /\ pc' = "recleaned"
  /\ UNCHANGED <<data, types, summary, cleanedData, kept, transformations, input,
               analysisVars, trainVars, appVars, callVars>>

\* a direct caller of performAdvancedCleaning declares the column types
DeclareTypes ==
  /\ pc = "upload"
  /\ \E tys \in [ColumnSet -> ColumnTypes] :
       /\ types' = tys
       /\ summary' = SummaryOf(data, tys)
  /\ pc' = "ingested"
  /\ UNCHANGED <<data, cleanedData, kept, transformations, input, recleaned, relog,
               analysisVars, trainVars, appVars, callVars>>

\* the second deferred callback of handleFileUpload: the statistics of the
\* cleaned rows
GenerateInsights ==
  /\ pc = "cleaned"
  /\ insights' = generateAdvancedEDAInsights(cleanedData, types)
  /\ pc' = "analysed"
  /\ UNCHANGED <<data, types, summary, cleanedData, kept, transformations, input,
               recleaned, relog, featureSelection, trainVars, appVars, callVars>>

\* the effect of AdvancedDashboard on the cleaned rows: feature selection
SelectFeatures ==
  /\ pc = "cleaned"
  /\ Len(cleanedData) > 0
  /\ featureSelection' = selectBestFeatures(cleanedData, types)
  /\ pc' = "selected"
  /\ UNCHANGED <<data, types, summary, cleanedData, kept, transformations, input,
               recleaned, relog, insights, trainVars, appVars, callVars>>

Next ==
  \/ ProcessFileData
  \/ CleanIngested
  \/ CleanAgain
  \/ GenerateInsights
  \/ SelectFeatures

Spec == Init /\ [][Next]_vars

NextDeclared ==
  \/ DeclareTypes
  \/ CleanIngested
  \/ CleanAgain
  \/ GenerateInsights
  \/ SelectFeatures

SpecDeclared == Init /\ [][NextDeclared]_vars

----------------------------------------------------------------------------
(* Training: handleTrainModels of AdvancedDashboard calls trainModels on the *)
(* cleaned rows and the selected features.                                   *)

MaxTrainRows == 10

MaxFeatures == 2

\* no file in the pipeline
PipelineIdle ==
  /\ data = <<>>
  /\ input = <<>>
  /\ types = NoTypes
  /\ summary = NoSummary
  /\ cleanedData = <<>>
  /\ kept = <<>>
  /\ transformations = <<>>
  /\ recleaned = <<>>
  /\ relog = <<>>
  /\ pc = "upload"
  /\ insights = NoInsights
  /\ featureSelection = NoMatrix

InitTrain ==
  /\ PipelineIdle
  /\ trainInput \in [rows : 0..MaxTrainRows, features : 0..MaxFeatures]
  /\ mlResults = NoResults
  /\ trainPc = "idle"
  /\ AppIdle
  /\ CallIdle

TrainModels ==
  /\ trainPc = "idle"
  /\ \E correct \in [1..3 -> 0..(trainInput.rows - SplitIndex(trainInput.rows))] :
       /\ correct[1] \in TreeOutcomes(trainInput.rows)
       /\ correct[3] \in TreeOutcomes(trainInput.rows)
       /\ mlResults' = trainModels(trainInput.rows, trainInput.features, correct)
  /\ trainPc' = "trained"
  /\ UNCHANGED <<pipelineVars, trainInput, appVars, callVars>>

NextTrain == TrainModels

SpecTrain == InitTrain /\ [][NextTrain]_vars

----------------------------------------------------------------------------
(* The application: handleFileUpload, handleDatabaseConnect, their deferred  *)
(* callbacks and the real-time refresh.  Time is counted in units of 500 ms; *)
(* a timer or promise fires when its remaining delay is 0, and time passes   *)
(* only while nothing is due.                                                *)

MaxIngestions == 2

\* setTimeout(..., 2000) and setTimeout(..., 2500) of handleFileUpload
FileCleaningDelay == 4

FileStatisticsDelay == 5

\* setTimeout(..., 1500) and setTimeout(..., 2000) of handleDatabaseConnect
DatabaseCleaningDelay == 3

DatabaseStatisticsDelay == 4

\* connectToDatabase: setTimeout(resolve, 2000)
ConnectDelay == 4

\* config.refreshInterval in seconds: 1, and the least value the form proposes
RefreshIntervals == {1, 10}

SupportedExtensions == {".csv", ".xlsx", ".xls"}

FileRows(pattern, badY) ==
  [i \in 1..CorrRows |->
     Row(CorrCell("count", i), IF i = badY THEN NoNumber ELSE CorrCell(pattern, i))]

\* the files offered for upload, each with the rows its parser returns
AppFiles ==
  << [extension |-> ".csv", rows |-> FileRows("swap", 0)],
     [extension |-> ".xlsx", rows |-> FileRows("swap", CorrRows)],
     [extension |-> ".csv", rows |-> <<>>],
     [extension |-> ".txt", rows |-> FileRows("swap", 0)] >>

\* processFileData throws: unsupported format, or no data found in file
Rejects(file) == file.extension \notin SupportedExtensions \/ Len(file.rows) = 0

Scheduled(kind, processedData, every, in) ==
  [kind |-> kind, data |-> processedData, every |-> every, in |-> in]

Due(kind) == {e \in scheduled : e.kind = kind /\ e.in = 0}

\* { name, baseAccuracy } of simulateModelPerformance, in percent
SimulatedNames ==
  << "Random Forest", "XGBoost", "Logistic Regression", "Decision Tree", "SVM",
     "Neural Network" >>

BaseAccuracy == <<89, 87, 82, 79, 85, 86>>

\* (Math.random() - 0.5) * 0.1 for each model, in percent: no noise, the
\* two ends of its range for all models, and the first model against the rest
Noises ==
  { [index \in 1..Len(SimulatedNames) |-> 0],
    [index \in 1..Len(SimulatedNames) |-> 0 - 5],
    [index \in 1..Len(SimulatedNames) |-> 4],
    [index \in 1..Len(SimulatedNames) |-> IF index = 1 THEN 0 - 5 ELSE 4],
    [index \in 1..Len(SimulatedNames) |-> IF index = 1 THEN 4 ELSE 0 - 5] }

\* Math.max(0.5, Math.min(0.99, accuracy))
ClampAccuracy(accuracy) ==
  IF accuracy > 99 THEN 99 ELSE IF accuracy < 50 THEN 50 ELSE accuracy

SimulatedModel(index, noise) ==
  [ name |-> SimulatedNames[index],
    accuracy |-> Fraction(ClampAccuracy(BaseAccuracy[index] + noise[index]), 100),
    recommended |-> (index = 1) ]

simulateModelPerformance(noise) ==
  SortByAccuracy([index \in 1..Len(SimulatedNames) |-> SimulatedModel(index, noise)])

\* generateAdvancedEDAInsights raises on the cleaned rows of the dataset d;
\* the rows of connectToDatabase have a number in every numeric cell
\* what simulateModelPerformance can return
SimulatedResults == {simulateModelPerformance(noise) : noise \in Noises}

\* the types processFileData can detect for the files it accepts
FileDatasets ==
  { [file |-> k, types |-> detectAdvancedDataTypes(AppFiles[k].rows, lenient)] :
      k \in {f \in 1..Len(AppFiles) : ~Rejects(AppFiles[f])}, lenient \in BOOLEAN }

\* the files on whose cleaned rows generateAdvancedEDAInsights raises
RaisingDatasets ==
  { f \in FileDatasets :
      generateAdvancedEDAInsights(
        performAdvancedCleaning(AppFiles[f.file].rows, f.types).data, f.types).raised }

StatisticsRaise(d) ==
  /\ d.source = "file"
  /\ [file |-> d.file, types |-> d.types] \in RaisingDatasets

\* setDataset(processedData); setCurrentStep(1); setCompletedSteps([0])
DatasetSet(a, d) ==
  [a EXCEPT !.dataset = d, !.currentStep = 1, !.completedSteps = <<0>>]

\* the catch block without setIsProcessing(false)
Caught_StillProcessing(a) == a

\* the catch block: setProcessingStepName(''); setIsProcessing(false)
Caught(a) == [a EXCEPT !.isProcessing = FALSE]

\* setCleanedData(cleaningResults.data); setCurrentStep(2); ...
CleaningDone(a, d) ==
  [a EXCEPT !.cleanedData = d.id, !.currentStep = 2, !.completedSteps = <<0, 1>>]

\* setAnalysisResults({...})
WithAnalysis(a, d, modelResults) ==
  [a EXCEPT !.analysisResults = [from |-> d.id, modelResults |-> modelResults]]

\* setAnalysisResults; setCurrentStep(3); ...; setIsProcessing(false)
StatisticsDone(a, d, modelResults) ==
  [WithAnalysis(a, d, modelResults) EXCEPT
     !.currentStep = 3, !.completedSteps = <<0, 1, 2, 3>>, !.isProcessing = FALSE]

\* the onUpdate callback of handleDatabaseConnect
Refreshed(a, d, modelResults) ==
  [WithAnalysis(a, d, modelResults) EXCEPT !.dataset = d, !.cleanedData = d.id]

\* handleFileUpload up to the await
UploadFile ==
  /\ ~app.isProcessing
  /\ issued < MaxIngestions
  /\ \E k \in 1..Len(AppFiles) :
       scheduled' = scheduled \cup
         {Scheduled("processFileData",
                    [id |-> issued + 1, source |-> "file", file |-> k, types |-> NoTypes],
                    0, 0)}
  /\ app' = [app EXCEPT !.isProcessing = TRUE]
  /\ issued' = issued + 1
  /\ lastEvent' = "handleFileUpload"
  /\ UNCHANGED <<pipelineVars, trainVars, callVars>>

\* processFileData rejects: the catch block of handleFileUpload
FileRejected ==
  /\ \E e \in Due("processFileData") :
       /\ Rejects(AppFiles[e.data.file])
       /\ scheduled' = scheduled \ {e}
  /\ app' = Caught(app)
  /\ lastEvent' = "rejected"
  /\ UNCHANGED <<pipelineVars, trainVars, callVars, issued>>

\* processFileData resolves: handleFileUpload after the await
FileIngested ==
  /\ \E e \in Due("processFileData") :
       /\ ~Rejects(AppFiles[e.data.file])
       /\ \E f \in FileDatasets :
            /\ f.file = e.data.file
            /\ app' = DatasetSet(app, [e.data EXCEPT !.types = f.types])
            /\ scheduled' = (scheduled \ {e})
                 \cup {Scheduled("cleaning", [e.data EXCEPT !.types = f.types], 0,
                                 FileCleaningDelay)}
  /\ lastEvent' = "ingested"
  /\ UNCHANGED <<pipelineVars, trainVars, callVars, issued>>

\* handleDatabaseConnect up to the await; every = 0: real-time updates off
ConnectDatabase ==
  /\ ~app.isProcessing
  /\ issued < MaxIngestions
  /\ \E every \in {0} \cup RefreshIntervals :
       scheduled' = scheduled \cup
         {Scheduled("connectToDatabase",
                    [id |-> issued + 1, source |-> "database", file |-> 0,
                     types |-> NoTypes],
                    every, ConnectDelay)}
  /\ app' = [app EXCEPT !.isProcessing = TRUE]
  /\ issued' = issued + 1
  /\ lastEvent' = "handleDatabaseConnect"
  /\ UNCHANGED <<pipelineVars, trainVars, callVars>>

\* connectToDatabase resolves: handleDatabaseConnect after the await;
\* setInterval(..., config.refreshInterval * 1000)
DatabaseConnected ==
  /\ \E e \in Due("connectToDatabase") :
       /\ app' = [DatasetSet(app, e.data) EXCEPT
                    !.isRealTimeEnabled = (e.every > 0) \/ @,
                    !.realTimeInterval = IF e.every > 0 THEN e.data.id ELSE @]
       /\ scheduled' = (scheduled \ {e})
            \cup {Scheduled("cleaning", e.data, 0, DatabaseCleaningDelay)}
            \cup (IF e.every > 0
                    THEN {Scheduled("interval", e.data, e.every, 2 * e.every)}
                    ELSE {})
  /\ lastEvent' = "connected"
  /\ UNCHANGED <<pipelineVars, trainVars, callVars, issued>>

\* the first deferred callback of either handler
CleaningTimer ==
  /\ \E e \in Due("cleaning") :
       /\ app' = CleaningDone(app, e.data)
       /\ scheduled' = (scheduled \ {e})
            \cup {Scheduled("statistics", e.data, 0,
                            IF e.data.source = "file" THEN FileStatisticsDelay
                            ELSE DatabaseStatisticsDelay)}
  /\ lastEvent' = "cleaning"
  /\ UNCHANGED <<pipelineVars, trainVars, callVars, issued>>

\* the second deferred callback of either handler
StatisticsTimer ==
  /\ \E e \in Due("statistics") :
       /\ ~StatisticsRaise(e.data)
       /\ scheduled' = scheduled \ {e}
       /\ \E modelResults \in SimulatedResults :
            app' = StatisticsDone(app, e.data, modelResults)
  /\ lastEvent' = "statistics"
  /\ UNCHANGED <<pipelineVars, trainVars, callVars, issued>>

\* the second deferred callback when generateAdvancedEDAInsights raises: the
\* callback runs outside the try block of its handler and ends there
StatisticsRaises ==
  /\ \E e \in Due("statistics") :
       /\ StatisticsRaise(e.data)
       /\ scheduled' = scheduled \ {e}
  /\ lastEvent' = "statistics raised"
  /\ UNCHANGED <<pipelineVars, trainVars, callVars, app, issued>>

\* the setInterval callback of setupRealTimeUpdates up to its await; beyond
\* MaxIngestions the interval goes on without fetching
IntervalTick ==
  /\ \E e \in Due("interval") :
       scheduled' = (scheduled \ {e})
         \cup {[e EXCEPT !.in = 2 * e.every]}
         \cup (IF issued < MaxIngestions
                 THEN {Scheduled("refresh",
                                 [id |-> issued + 1, source |-> "database", file |-> 0,
                                  types |-> NoTypes],
                                 0, ConnectDelay)}
                 ELSE {})
  /\ issued' = IF issued < MaxIngestions THEN issued + 1 ELSE issued
  /\ lastEvent' = "interval"
  /\ UNCHANGED <<pipelineVars, trainVars, callVars, app>>

\* the setInterval callback after its await: onUpdate(updatedData)
RefreshArrives ==
  /\ \E e \in Due("refresh") :
       /\ scheduled' = scheduled \ {e}
       /\ \E modelResults \in SimulatedResults :
            app' = Refreshed(app, e.data, modelResults)
  /\ lastEvent' = "refresh"
  /\ UNCHANGED <<pipelineVars, trainVars, callVars, issued>>

\* the button of step 3: setCurrentStep(4)
CompleteAnalysis ==
  /\ ~app.isProcessing
  /\ app.currentStep = 3
  /\ app.analysisResults # NoAnalysis
  /\ app' = [app EXCEPT !.currentStep = 4]
  /\ lastEvent' = "complete"
  /\ UNCHANGED <<pipelineVars, trainVars, callVars, scheduled, issued>>

\* clearInterval(realTimeInterval) when the state holds an interval
Cleared(timers, interval) ==
  {e \in timers : ~(e.kind = "interval" /\ e.data.id = interval)}

\* stopRealTimeUpdates on the state a
Stopped(a) ==
  IF a.realTimeInterval # 0
    THEN [a EXCEPT !.realTimeInterval = 0, !.isRealTimeEnabled = FALSE]
    ELSE a

\* the button of step 4, 'Analyze Another Dataset': stopRealTimeUpdates and
\* the resets
AnalyzeAnother ==
  /\ ~app.isProcessing
  /\ app.currentStep = 4
  /\ scheduled' = Cleared(scheduled, app.realTimeInterval)
  /\ app' = [Stopped(app) EXCEPT
               !.currentStep = 0, !.dataset = NoDataset, !.cleanedData = 0,
               !.analysisResults = NoAnalysis, !.completedSteps = <<>>]
  /\ lastEvent' = "analyzeAnother"
  /\ UNCHANGED <<pipelineVars, trainVars, callVars, issued>>

\* 500 ms pass
Elapse ==
  /\ scheduled # {}
  /\ \A e \in scheduled : e.in > 0
  /\ scheduled' = {[e EXCEPT !.in = @ - 1] : e \in scheduled}
  /\ UNCHANGED <<pipelineVars, trainVars, callVars, app, issued, lastEvent>>

InitApp == PipelineIdle /\ TrainIdle /\ AppIdle /\ CallIdle

Fires ==
  \/ FileRejected
  \/ FileIngested
  \/ DatabaseConnected
  \/ CleaningTimer
  \/ StatisticsTimer
  \/ StatisticsRaises
  \/ IntervalTick
  \/ RefreshArrives
  \/ Elapse

NextApp ==
  \/ UploadFile
  \/ ConnectDatabase
  \/ CompleteAnalysis
  \/ AnalyzeAnother
  \/ Fires

SpecApp == InitApp /\ [][NextApp]_vars

\* every timer and promise that is due fires, and time goes on
SpecAppFair == SpecApp /\ WF_vars(Fires)

----------------------------------------------------------------------------
(* Functions called on their own: the classifiers' helpers.                  *)

MaxLabels == 6

Labels == {0, 1}

LabelLists == UNION {[1..n -> Labels] : n \in 0..MaxLabels}

\* counts[label]
CountOfLabel(labels, label) ==
  Cardinality({i \in 1..Len(labels) : labels[i] = label})

\* Object.keys(counts): the keys that are array indices, in ascending order
KeysOf(labels) == Ascending({labels[i] : i \in 1..Len(labels)})

\* counts[Number(a)] > counts[Number(b)] ? a : b
Preferred(labels, a, b) ==
  IF CountOfLabel(labels, a) > CountOfLabel(labels, b) THEN a ELSE b

\* keys.reduce((a, b) => ...) over the first n keys, n >= 1
RECURSIVE ReduceKeys(_, _, _)
ReduceKeys(labels, keys, n) ==
  IF n = 1 THEN keys[1]
  ELSE Preferred(labels, ReduceKeys(labels, keys, n - 1), keys[n])

\* DecisionTree.majorityClass
majorityClass(y) ==
  IF Len(y) = 0 THEN 0
  ELSE ReduceKeys(y, KeysOf(y), Len(KeysOf(y)))

\* RandomForestClassifier.majorityVote; predict calls it with one prediction
\* for each of its trees, never with none
majorityVote(predictions) ==
  ReduceKeys(predictions, KeysOf(predictions), Len(KeysOf(predictions)))

CallMajorityClass ==
  /\ call.op = "none"
  /\ \E y \in LabelLists :
    /\ call' = [op |-> "majorityClass", labels |-> y]
    /\ result' = [op |-> "majorityClass", label |-> majorityClass(y)]
    /\ UNCHANGED <<pipelineVars, trainVars, appVars>>

CallMajorityVote ==
  /\ call.op = "none"
  /\ \E predictions \in LabelLists \ {<<>>} :
    /\ call' = [op |-> "majorityVote", labels |-> predictions]
    /\ result' = [op |-> "majorityVote", label |-> majorityVote(predictions)]
    /\ UNCHANGED <<pipelineVars, trainVars, appVars>>

\* DecisionTree.  A training set is a sequence of samples [x, y]: the row
\* of X and its label.  Feature values are naturals or NotANumber; a
\* threshold (a + b) / 2 is kept doubled, as a + b.

MaxTreeRows == 3

MaxDepth == 2

NotANumber == 0 - 1

FeatureValues == {0, 1, 2, NotANumber}

\* the training sets: one feature column, or rows of no feature, and two
\* feature columns for up to two rows
FeatureCounts(n) == IF n <= 2 THEN {0, 1, 2} ELSE {0, 1}

TrainingSets ==
  UNION { UNION { [1..n -> [x : [1..f -> FeatureValues], y : Labels]] :
                    f \in FeatureCounts(n) } : n \in 0..MaxTreeRows }

LabelsOf(samples) == [i \in 1..Len(samples) |-> samples[i].y]

\* row[feature] <= threshold, false for NaN
GoesLeft(x, feature, threshold) ==
  x[feature] # NotANumber /\ 2 * x[feature] <= threshold

\* splitData / splitLabels
LeftOf(samples, split) ==
  SelectSeq(samples, LAMBDA s : GoesLeft(s.x, split.feature, split.threshold))

RightOf(samples, split) ==
  SelectSeq(samples, LAMBDA s : ~GoesLeft(s.x, split.feature, split.threshold))

\* [...new Set(values)].sort((a, b) => a - b), values without NaN
UniqueValues(samples, feature) ==
  Ascending({samples[i].x[feature] : i \in 1..Len(samples)} \ {NotANumber})

Split(feature, threshold) == [feature |-> feature, threshold |-> threshold]

\* bestFeature = -1
NoSplit == Split(0, 0)

ThresholdsOf(feature, uniqueValues) ==
  IF Len(uniqueValues) < 2 THEN <<>>
  ELSE [i \in 1..(Len(uniqueValues) - 1) |->
          Split(feature, uniqueValues[i] + uniqueValues[i + 1])]

\* the candidate splits of the first k features, in the order of the loops
RECURSIVE Candidates(_, _)
Candidates(samples, k) ==
  IF k = 0 THEN <<>>
  ELSE Candidates(samples, k - 1) \o ThresholdsOf(k, UniqueValues(samples, k))

\* the sum of the squared label counts of the labels y
SquaredCounts(y) ==
  CountOfLabel(y, 0) * CountOfLabel(y, 0) + CountOfLabel(y, 1) * CountOfLabel(y, 1)

\* calculateGini of the partition into the labels leftY and rightY, as
\* 1 - (num / den) / totalSize; den = 0 stands for Infinity
GiniOf(leftY, rightY) ==
  IF Len(leftY) = 0 \/ Len(rightY) = 0 THEN Fraction(0, 0)
  ELSE Fraction(SquaredCounts(leftY) * Len(rightY) + SquaredCounts(rightY) * Len(leftY),
                Len(leftY) * Len(rightY))

calculateGini(samples, split) ==
  IF split = NoSplit THEN Fraction(0, 0)
  ELSE GiniOf(LabelsOf(LeftOf(samples, split)), LabelsOf(RightOf(samples, split)))

\* gini < bestGini
GiniLess(gini, bestGini) ==
  /\ gini.den # 0
  /\ bestGini.den = 0 \/ gini.num * bestGini.den > bestGini.num * gini.den

Better(samples, best, candidate) ==
  IF GiniLess(calculateGini(samples, candidate), calculateGini(samples, best))
    THEN candidate ELSE best

RECURSIVE BestOf(_, _, _)
BestOf(samples, candidates, n) ==
  IF n = 0 THEN NoSplit
  ELSE Better(samples, BestOf(samples, candidates, n - 1), candidates[n])

\* findBestSplit, called on a training set that is not empty
findBestSplit(samples) ==
  BestOf(samples, Candidates(samples, Len(samples[1].x)),
         Len(Candidates(samples, Len(samples[1].x))))

Leaf(label) == [leaf |-> TRUE, label |-> label]

\* depth > this.maxDepth
StopsAt_Beyond(depth, maxDepth) == depth > maxDepth

\* depth >= this.maxDepth
StopsAt(depth, maxDepth) == depth >= maxDepth

RECURSIVE buildTree(_, _, _)

\* buildTree after findBestSplit
Grow(samples, depth, maxDepth, split) ==
  IF split = NoSplit THEN Leaf(majorityClass(LabelsOf(samples)))
  ELSE [ leaf |-> FALSE, feature |-> split.feature, threshold |-> split.threshold,
         left |-> buildTree(LeftOf(samples, split), depth + 1, maxDepth),
         right |-> buildTree(RightOf(samples, split), depth + 1, maxDepth) ]

buildTree(samples, depth, maxDepth) ==
  IF \/ StopsAt(depth, maxDepth)
     \/ Cardinality({samples[i].y : i \in 1..Len(samples)}) = 1
     \/ Len(samples) = 0
    THEN Leaf(majorityClass(LabelsOf(samples)))
    ELSE Grow(samples, depth, maxDepth, findBestSplit(samples))

RECURSIVE predictSample(_, _)
predictSample(x, node) ==
  IF node.leaf THEN node.label
  ELSE IF GoesLeft(x, node.feature, node.threshold)
    THEN predictSample(x, node.left)
    ELSE predictSample(x, node.right)

\* the samples predicted: every row of as many features as the training rows
\* (one feature for an empty training set)
Probes(samples) ==
  [1..(IF Len(samples) = 0 THEN 1 ELSE Len(samples[1].x)) -> FeatureValues]

\* fit, then predict for every probe
CallDecisionTree ==
  /\ call.op = "none"
  /\ \E samples \in TrainingSets : \E maxDepth \in 0..MaxDepth :
    /\ call' = [op |-> "DecisionTree", samples |-> samples, maxDepth |-> maxDepth]
    /\ \E tree \in {buildTree(samples, 0, maxDepth)} :
         result' = [ op |-> "DecisionTree", tree |-> tree,
                     predictions |-> [x \in Probes(samples) |-> predictSample(x, tree)] ]
    /\ UNCHANGED <<pipelineVars, trainVars, appVars>>

InitCalls == PipelineIdle /\ TrainIdle /\ AppIdle /\ CallIdle

NextClassifiers ==
  \/ CallMajorityClass
  \/ CallMajorityVote
  \/ CallDecisionTree

SpecClassifiers == InitCalls /\ [][NextClassifiers]_vars

----------------------------------------------------------------------------
(* detectAnomalies *)

\* two columns of AnomalyRows rows: a column is flat ("5") with "100" in its
\* spike rows, or holds labels
AnomalyRows == 11

SpikeSets == {{}, {1}, {2}, {1, 2}, {2, 3}}

SpikeCell(spikes, i) ==
  IF i \in spikes THEN Str(<<"1", "0", "0">>) ELSE Str(<<"5">>)

AnomalyDatasets ==
  { [i \in 1..AnomalyRows |-> Row(SpikeCell(sx, i), SpikeCell(sy, i))] :
      <<sx, sy>> \in SpikeSets \X SpikeSets }
  \cup { [i \in 1..AnomalyRows |-> Row(SpikeCell(sx, i), RowId(i))] :
           sx \in SpikeSets }

\* the largest r with r * r <= k
Isqrt(k) == CHOOSE r \in 0..256 : r * r <= k /\ k < (r + 1) * (r + 1)

\* Number(row[column]) over the common factor g of the column's numbers
ScaledNumber(cell, g) ==
  IF g = 0 THEN ToNumber(cell).n ELSE ToNumber(cell).n \div g

\* ((value - mean) / std)^2 as a fraction, for the column's numbers v:
\* mean = Sum(v) / n, std^2 = (n * SumOfSquares(v) - Sum(v)^2) / n^2
ZSquared(value, v) ==
  [ num |-> (Len(v) * value - Sum(v)) * (Len(v) * value - Sum(v)),
    den |-> Len(v) * SumOfSquares(v) - Sum(v) * Sum(v) ]

\* zScore of the cell in its column
ZSquaredOfCell(rows, i, column) ==
  ZSquared(ScaledNumber(rows[i][column], GcdOfAll(NumberCells(rows, column))),
           Rescaled(NumberCells(rows, column), 1))

\* !isNaN(value), std > 0 and zScore > 2
IsInvolved(cell, z) ==
  ToNumber(cell).t = "number" /\ z.den > 0 /\ z.num > 4 * z.den

\* involvedFeatures of row i, in the order of numericColumns
involvedFeatures(rows, i, numericColumns) ==
  SelectSeq(numericColumns,
            LAMBDA c : IsInvolved(rows[i][c], ZSquaredOfCell(rows, i, c)))

\* zScore in 1/16, rounded down
ZScoreSixteenths(z) == Isqrt((256 * z.num) \div z.den)

\* anomalyScore in 1/16: the sum of zScore over the involved features
anomalyScore(rows, i, features) ==
  Sum([k \in 1..Len(features) |->
         ZScoreSixteenths(ZSquaredOfCell(rows, i, features[k]))])

\* anomalyScore > 3: every involved zScore exceeds 2, so two or more of them
\* sum to more than 4; a single one is compared exactly
ScoreExceedsThree(rows, i, features) ==
  \/ Len(features) >= 2
  \/ /\ Len(features) = 1
     /\ ZSquaredOfCell(rows, i, features[1]).num
          > 9 * ZSquaredOfCell(rows, i, features[1]).den

\* the entry pushed for row i (index is 0-based in the code, 1-based here)
AnomalyOf(rows, i, features) ==
  [index |-> i, score |-> anomalyScore(rows, i, features), features |-> features]

\* anomalies before sorting, in row order
PushedAnomalies(rows, numericColumns) ==
  LET flagged == SelectSeq([i \in 1..Len(rows) |-> i],
                   LAMBDA i : ScoreExceedsThree(rows, i,
                                involvedFeatures(rows, i, numericColumns)))
  IN [k \in 1..Len(flagged) |->
        AnomalyOf(rows, flagged[k], involvedFeatures(rows, flagged[k], numericColumns))]

\* anomalies.sort((a, b) => b.score - a.score): stable, descending
RECURSIVE InsertByScore(_, _)
InsertByScore(sorted, a) ==
  IF sorted = <<>> THEN <<a>>
  ELSE IF Head(sorted).score >= a.score
    THEN <<Head(sorted)>> \o InsertByScore(Tail(sorted), a)
    ELSE <<a>> \o sorted

RECURSIVE SortByScore(_)
SortByScore(list) ==
  IF list = <<>> THEN <<>>
  ELSE InsertByScore(SortByScore(SubSeq(list, 1, Len(list) - 1)), list[Len(list)])

\* .slice(0, 10)
TopTen(list) == SubSeq(list, 1, Min(10, Len(list)))

\* numericColumns in the order of columns
NumericColumnList(tys) == SelectSeq(Columns, LAMBDA c : tys[c] = "numeric")

detectAnomalies(rows, numericColumns) ==
  IF Len(numericColumns) < 2 THEN <<>>
  ELSE TopTen(SortByScore(PushedAnomalies(rows, numericColumns)))

\* detectAnomalies(data, numericColumns) as generateAdvancedEDAInsights calls
\* it, on a dataset with its detected types
CallDetectAnomalies ==
  /\ call.op = "none"
  /\ \E rows \in AnomalyDatasets :
    /\ \E tys \in {detectAdvancedDataTypes(rows, FALSE)} :
      /\ call' = [op |-> "detectAnomalies", rows |-> rows, types |-> tys]
      /\ result' = [ op |-> "detectAnomalies",
                     anomalies |-> detectAnomalies(rows, NumericColumnList(tys)) ]
    /\ UNCHANGED <<pipelineVars, trainVars, appVars>>

----------------------------------------------------------------------------
(* selectBestFeatures: the feature scores and the selection.  A table is     *)
(* given column by column; a column is named by its position.                *)

FeatureRows == 3

MaxColumns == 11

NumericKinds == {"count", "steps", "constant", "noNumber"}

CategoricalKinds == {"labels", "same", "empty"}

ColumnKinds == NumericKinds \cup CategoricalKinds

\* the cell of row i in a column of the kind
FeatureCell(kind, i) ==
  CASE kind = "count" -> Str(NatToChars(i))
    [] kind = "steps" -> Str(NatToChars(1 + (i % 2)))
    [] kind = "constant" -> Str(<<"3">>)
    [] kind = "noNumber" -> NoNumber
    [] kind = "labels" -> RowId(i)
    [] kind = "same" -> Str(<<"N", "Y">>)
    [] kind = "empty" -> EmptyString

\* data.map(row => row[column])
FeatureCells(kind) == [i \in 1..FeatureRows |-> FeatureCell(kind, i)]

\* types[column]
KindType(kind) == IF kind \in NumericKinds THEN "numeric" ELSE "categorical"

\* every table of up to three columns, and wider ones with no, one or two
\* numeric columns among categorical ones
WideKind(k) == IF k % 2 = 0 THEN "labels" ELSE "same"

FeatureTables ==
  UNION { [1..n -> ColumnKinds] : n \in 1..3 }
  \cup { [k \in 1..n |-> IF k = j THEN "count" ELSE WideKind(k)] :
           <<n, j>> \in {4, MaxColumns - 1, MaxColumns} \X (0..MaxColumns) }
  \cup { [k \in 1..n |-> IF k = j THEN "count"
                         ELSE IF k = j + 1 THEN "steps" ELSE WideKind(k)] :
           <<n, j>> \in {4, MaxColumns - 1, MaxColumns} \X (1..3) }

ScoreNaN == [t |-> "NaN", num |-> 0, den |-> 1]

\* the number num / den, den > 0, in lowest terms
ScoreNumber(num, den) ==
  [t |-> "number", num |-> num \div Gcd(num, den), den |-> den \div Gcd(num, den)]

\* Math.min(1, score)
MinWithOne(score) ==
  IF score.t = "NaN" THEN ScoreNaN
  ELSE IF score.num > score.den THEN ScoreNumber(1, 1) ELSE score

\* calculateVariance(values) * uniqueRatio for values in 1/256: the
\* variance is (n * sum of squares - sum^2) / n^2
VarianceTimesUniqueRatio(values, unique) ==
  ScoreNumber((Len(values) * SumOfSquares(values) - Sum(values) * Sum(values)) * unique,
              Len(values) * Len(values) * Len(values) * 65536)

\* new Set(values).size
UniqueCount(values) == Cardinality({values[i] : i \in 1..Len(values)})

\* the score of a numeric column from its valid numbers
NumericScore(values) ==
  IF Len(values) > 0
    THEN VarianceTimesUniqueRatio(values, UniqueCount(values))
    ELSE ScoreNumber(0, 1)

\* v != null && v !== ''
IsCategoryValue(v) == NotNullish(v) /\ v # EmptyString

\* new Set(values).size / values.length, 0 / 0 being NaN
CategoricalScore(values) ==
  IF Len(values) = 0 THEN ScoreNaN
  ELSE ScoreNumber(UniqueCount(values), Len(values))

\* the body of columns.map in selectBestFeatures
FeatureScoreOf(kind) ==
  MinWithOne(
    IF KindType(kind) = "numeric"
      THEN NumericScore(ValidNumbers([i \in 1..FeatureRows |->
                                        ToNumber(FeatureCell(kind, i))]))
      ELSE CategoricalScore(SelectSeq(FeatureCells(kind), IsCategoryValue)))

featureScores(table) ==
  [k \in 1..Len(table) |-> [feature |-> k, score |-> FeatureScoreOf(table[k])]]

\* b.score - a.score <= 0 for two numbers
ScoreAtLeast(a, b) == a.num * b.den >= b.num * a.den

\* featureScores.sort((a, b) => b.score - a.score) for scores that are all
\* numbers: stable, descending
RECURSIVE InsertFeature(_, _)
InsertFeature(sorted, f) ==
  IF sorted = <<>> THEN <<f>>
  ELSE IF ScoreAtLeast(Head(sorted).score, f.score)
    THEN <<Head(sorted)>> \o InsertFeature(Tail(sorted), f)
    ELSE <<f>> \o sorted

RECURSIVE SortFeatures(_)
SortFeatures(list) ==
  IF list = <<>> THEN <<>>
  ELSE InsertFeature(SortFeatures(SubSeq(list, 1, Len(list) - 1)), list[Len(list)])

\* the orders of a list
Reorderings(list) ==
  { [k \in 1..Len(list) |-> list[p[k]]] :
      p \in {q \in [1..Len(list) -> 1..Len(list)] :
               \A i, j \in 1..Len(list) : q[i] = q[j] => i = j} }

\* what the sort may leave: with a NaN score the comparator is not
\* consistent and the order is the engine's choice
SortOutcomes(list) ==
  IF \E k \in 1..Len(list) : list[k].score.t = "NaN"
    THEN Reorderings(list)
    ELSE {SortFeatures(list)}

\* sortedFeatures.slice(0, Math.min(10, columns.length)).map(f => f.feature)
SelectedOf(sortedFeatures, columns) ==
  [k \in 1..Min(Min(10, columns), Len(sortedFeatures)) |-> sortedFeatures[k].feature]

\* columns.filter(col => types[col] === 'numeric')
NumericOf(table) ==
  SelectSeq([k \in 1..Len(table) |-> k], LAMBDA k : KindType(table[k]) = "numeric")

\* the matrix over the numeric columns
MatrixOf(table, numericColumns) ==
  [pr \in numericColumns \X numericColumns |->
     FeatureCorrelation(
       ValidNumbers([i \in 1..FeatureRows |-> ToNumber(FeatureCell(table[pr[1]], i))]),
       ValidNumbers([i \in 1..FeatureRows |-> ToNumber(FeatureCell(table[pr[2]], i))]))]

\* the return of the guard numericColumns.length < 2
FewNumericColumns(table) ==
  [ selectedFeatures |-> [k \in 1..Len(table) |-> k],
    featureScores |-> [k \in 1..Len(table) |->
                         [feature |-> k, score |-> ScoreNumber(1, 1)]],
    correlationMatrix |-> NoMatrix ]

\* the return after scoring and sorting
Selection(table, sortedFeatures) ==
  [ selectedFeatures |-> SelectedOf(sortedFeatures, Len(table)),
    featureScores |-> sortedFeatures,
    correlationMatrix |->
      MatrixOf(table, {NumericOf(table)[k] : k \in 1..Len(NumericOf(table))}) ]

FeatureSelections(table) ==
  IF Len(NumericOf(table)) < 2 THEN {FewNumericColumns(table)}
  ELSE {Selection(table, sorted) : sorted \in SortOutcomes(featureScores(table))}

CallSelectBestFeatures ==
  /\ call.op = "none"
  /\ \E table \in FeatureTables :
    /\ call' = [op |-> "selectBestFeatures", table |-> table]
    /\ \E selection \in FeatureSelections(table) :
         result' = [op |-> "selectBestFeatures", selection |-> selection]
    /\ UNCHANGED <<pipelineVars, trainVars, appVars>>

----------------------------------------------------------------------------
(* generateAdvancedEDAInsights: the summary of a numeric column *)

MaxSummaryRows == 4

SummaryCells ==
  {Str(<<"1">>), Str(<<"2">>), Str(<<"5">>), EmptyString, NoNumber, Null}

\* the cells of one column declared numeric
SummaryColumns == UNION { [1..n -> SummaryCells] : n \in 1..MaxSummaryRows }

\* v != null && v !== '' && v !== 'null'
IsSummaryValid(v) == NotNullish(v) /\ v # EmptyString /\ v # Str(NullWord)

\* validValues.map(...).filter(v => !isNaN(v) && isFinite(v))
numValues(validValues) ==
  ValidNumbers([i \in 1..Len(validValues) |-> CleanedNumber(validValues[i])])

\* sum of (n * v[i] - total)^power: the deviations from the mean, times n
RECURSIVE SumOfPowers(_, _, _, _)
SumOfPowers(v, total, power, k) ==
  IF k = 0 THEN 0
  ELSE SumOfPowers(v, total, power, k - 1)
         + ( IF power = 3
               THEN (Len(v) * v[k] - total) * (Len(v) * v[k] - total)
                      * (Len(v) * v[k] - total)
               ELSE (Len(v) * v[k] - total) * (Len(v) * v[k] - total)
                      * (Len(v) * v[k] - total) * (Len(v) * v[k] - total) )

\* n^2 * std^2
SpreadOf(v) == Len(v) * SumOfSquares(v) - Sum(v) * Sum(v)

\* a moment is the number sign * num / (den * sqrt(root))
ZeroMoment == [t |-> "number", sign |-> 0, num |-> 0, den |-> 1, root |-> 1]

\* (n / ((n - 1) * (n - 2))) * skew, skew = cubes / spread^(3/2)
SkewnessOf(n, cubes, spread) ==
  IF cubes = 0 THEN ZeroMoment
  ELSE [ t |-> "number", sign |-> Sign(cubes), num |-> n * Abs(cubes),
         den |-> (n - 1) * (n - 2) * spread, root |-> spread ]

calculateSkewness(v) ==
  IF SpreadOf(v) = 0 \/ Len(v) < 3 THEN ZeroMoment
  ELSE SkewnessOf(Len(v), SumOfPowers(v, Sum(v), 3, Len(v)), SpreadOf(v))

\* ((n * (n + 1)) / ((n - 1) * (n - 2) * (n - 3))) * kurt
\*   - (3 * (n - 1)^2) / ((n - 2) * (n - 3)), kurt = fourths / spread^2
KurtosisOf(n, fourths, spread) ==
  [ t |-> "number",
    sign |-> Sign(n * (n + 1) * fourths
                    - 3 * (n - 1) * (n - 1) * (n - 1) * spread * spread),
    num |-> Abs(n * (n + 1) * fourths
                  - 3 * (n - 1) * (n - 1) * (n - 1) * spread * spread),
    den |-> (n - 1) * (n - 2) * (n - 3) * spread * spread, root |-> 1 ]

calculateKurtosis(v) ==
  IF SpreadOf(v) = 0 \/ Len(v) < 4 THEN ZeroMoment
  ELSE KurtosisOf(Len(v), SumOfPowers(v, Sum(v), 4, Len(v)), SpreadOf(v))

\* the object returned when numValues is empty: no skewness, no kurtosis
EmptyNumericSummary(missing) ==
  [ count |-> 0, missing |-> missing, std |-> "zero",
    skewness |-> Undefined, kurtosis |-> Undefined ]

\* the object returned otherwise; the ratios of the two moments do not
\* change with a common factor of the values
FullNumericSummary(count, missing, v) ==
  [ count |-> count, missing |-> missing,
    std |-> IF SpreadOf(v) = 0 THEN "zero" ELSE "positive",
    skewness |-> calculateSkewness(v), kurtosis |-> calculateKurtosis(v) ]

NumericSummaryOf(cells, validValues) ==
  IF Len(numValues(validValues)) = 0
    THEN EmptyNumericSummary(Len(cells) - Len(validValues))
    ELSE FullNumericSummary(Len(validValues), Len(cells) - Len(validValues),
                            Rescaled(numValues(validValues), 1))

\* the body of columns.map for a numeric column
NumericSummary(cells) == NumericSummaryOf(cells, SelectSeq(cells, IsSummaryValid))

CallNumericSummary ==
  /\ call.op = "none"
  /\ \E cells \in SummaryColumns :
    /\ call' = [op |-> "numericSummary", cells |-> cells]
    /\ result' = [op |-> "numericSummary", summary |-> NumericSummary(cells)]
    /\ UNCHANGED <<pipelineVars, trainVars, appVars>>

----------------------------------------------------------------------------
(* generateAdvancedEDAInsights: the quality assessment and the               *)
(* recommendations.  No column of the tables is declared datetime.           *)

MaxQualityRows == 5

\* column x: `missing` empty cells, then `bad` cells that are no number,
\* then "5"; column y: `missingY` empty cells, then labels
QualityRow(i, missing, bad, missingY) ==
  Row(IF i <= missing THEN EmptyString
      ELSE IF i <= missing + bad THEN NoNumber ELSE Str(<<"5">>),
      IF i <= missingY THEN EmptyString ELSE RowId(i))

QualityDatasets ==
  { [i \in 1..q[1] |-> QualityRow(i, q[2], q[3], q[4])] :
      q \in {r \in (1..MaxQualityRows) \X (0..MaxQualityRows)
                     \X (0..MaxQualityRows) \X (0..MaxQualityRows) :
               r[2] + r[3] <= r[1] /\ r[4] <= r[1]} }

QualityTypes == { [x |-> t, y |-> "categorical"] : t \in {"numeric", "categorical"} }

\* a / b of two numbers, 0 / 0 being NaN
Ratio(a, b) == IF b = 0 THEN ScoreNaN ELSE ScoreNumber(a, b)

TimesRatio(a, b) ==
  IF a.t = "NaN" \/ b.t = "NaN" THEN ScoreNaN
  ELSE ScoreNumber(a.num * b.num, a.den * b.den)

PlusRatio(a, b) ==
  IF a.t = "NaN" \/ b.t = "NaN" THEN ScoreNaN
  ELSE ScoreNumber(a.num * b.den + b.num * a.den, a.den * b.den)

\* s.missing of the column's summary
MissingOf(rows, column) ==
  Len(rows) - Len(SelectSeq(ColumnValues(rows, column), IsSummaryValid))

\* summary.reduce((acc, s) => acc + s.missing, 0)
TotalMissing(rows) == Sum([k \in 1..Len(Columns) |-> MissingOf(rows, Columns[k])])

completeness(rows) ==
  TimesRatio(Ratio(Len(rows) * Len(Columns) - TotalMissing(rows),
                   Len(rows) * Len(Columns)),
             ScoreNumber(100, 1))

\* values.filter(v => !isNaN(Number(v)))
IsNumberLike(v) == ToNumber(v).t = "number"

\* numericValues.length / values.length of a numeric column, 1 otherwise
ConsistencyOf(rows, column, tys) ==
  IF tys[column] = "numeric"
    THEN Ratio(Len(SelectSeq(SelectSeq(ColumnValues(rows, column), IsCategoryValue),
                             IsNumberLike)),
               Len(SelectSeq(ColumnValues(rows, column), IsCategoryValue)))
    ELSE ScoreNumber(1, 1)

\* consistencyScore after columns.forEach over the first k columns
RECURSIVE ConsistencyLoop(_, _, _)
ConsistencyLoop(rows, tys, k) ==
  IF k = 0 THEN ScoreNumber(100, 1)
  ELSE TimesRatio(ConsistencyLoop(rows, tys, k - 1),
                  ConsistencyOf(rows, Columns[k], tys))

\* Math.max(0, consistencyScore): the score is never negative
calculateConsistency(rows, tys) == ConsistencyLoop(rows, tys, Len(Columns))

\* validityScore stays 100 without a datetime column
calculateValidity(rows, tys) == ScoreNumber(100, 1)

\* the cells counted by calculateAccuracy
IsAccurateCell(v, type) ==
  IsCategoryValue(v) /\ (type = "numeric" => IsNumberLike(v))

validCells(rows, tys) ==
  Sum([i \in 1..Len(rows) |->
         Cardinality({c \in ColumnSet : IsAccurateCell(rows[i][c], tys[c])})])

calculateAccuracy(rows, tys) ==
  TimesRatio(Ratio(validCells(rows, tys), Len(rows) * Len(Columns)),
             ScoreNumber(100, 1))

\* dataQuality.overall
overall(rows, tys) ==
  TimesRatio(PlusRatio(PlusRatio(completeness(rows), calculateConsistency(rows, tys)),
                       PlusRatio(calculateValidity(rows, tys),
                                 calculateAccuracy(rows, tys))),
             ScoreNumber(1, 4))

\* a > k for a number or NaN a
Exceeds(a, k) == a.t = "number" /\ a.num > k * a.den

\* the data-quality branch of generateAdvancedRecommendations
QualityMessage(quality) ==
  IF Exceeds(quality, 90) THEN "excellent"
  ELSE IF Exceeds(quality, 80) THEN "good"
  ELSE "needsImprovement"

\* s.missingPercentage > 30
HighMissingColumns(rows) ==
  {c \in ColumnSet : MissingOf(rows, c) * 100 > 30 * Len(rows)}

\* the columns of outlierAnalysis: numeric ones with an IQR outlier
OutlierColumns(rows, tys) ==
  {c \in NumericColumns(tys) : detectIQROutliers(NumberCells(rows, c)) > 0}

\* the messages pushed when their condition holds, in the order of the code
OptionalMessages(rows, tys) ==
  << [message |-> "highMissing", pushed |-> HighMissingColumns(rows) # {}],
     [message |-> "numericFeatures", pushed |-> Cardinality(NumericColumns(tys)) > 1],
     [message |-> "outliers", pushed |-> OutlierColumns(rows, tys) # {}],
     [message |-> "categoricalFeatures",
      pushed |-> \E c \in ColumnSet : tys[c] = "categorical"],
     [message |-> "largeFeatureSet", pushed |-> Len(Columns) > 10],
     [message |-> "timeSeries", pushed |-> \E c \in ColumnSet : tys[c] = "datetime"] >>

MessagesOf(optional) ==
  LET pushed == SelectSeq(optional, LAMBDA m : m.pushed)
  IN [k \in 1..Len(pushed) |-> pushed[k].message]

generateAdvancedRecommendations(rows, tys, quality) ==
  <<QualityMessage(quality)>> \o MessagesOf(OptionalMessages(rows, tys))
    \o <<"completed", "ready">>

CallRecommendations ==
  /\ call.op = "none"
  /\ \E rows \in QualityDatasets : \E tys \in QualityTypes :
    /\ call' = [op |-> "recommendations", rows |-> rows, types |-> tys]
    /\ \E quality \in {overall(rows, tys)} :
         result' = [ op |-> "recommendations", overall |-> quality,
                     recommendations |->
                       generateAdvancedRecommendations(rows, tys, quality) ]
    /\ UNCHANGED <<pipelineVars, trainVars, appVars>>

NextInsights ==
  \/ CallDetectAnomalies
  \/ CallSelectBestFeatures
  \/ CallNumericSummary
  \/ CallRecommendations

SpecInsights == InitCalls /\ [][NextInsights]_vars

----------------------------------------------------------------------------
(* Properties *)

Cleaned == pc \in {"cleaned", "recleaned", "analysed", "selected"}

Ingested == pc # "upload"

\* a missing cell: null, undefined or the empty string
IsMissingMarker(v) == v \in {Null, Undefined, EmptyString}

\* a missing cell as the profiler's contract has it: also "null", "undefined"
IsProfilerMissing(v) ==
  IsMissingMarker(v) \/ v \in {Str(NullWord), Str(UndefinedWord)}

LogEntries(log, column, transformation) ==
  {i \in 1..Len(log) :
     log[i].column = column /\ log[i].transformation = transformation}

\* the numbers of the cells of a column that are not missing
NonMissingNumbers(rows, column) ==
  LET present == SelectSeq(ColumnValues(rows, column),
                           LAMBDA v : ~IsMissingMarker(v))
  IN ValidNumbers([i \in 1..Len(present) |-> ToNumber(present[i])])

\* C1: cleaning is idempotent: cleaning the cleaned rows returns the same rows
\* (same order, same cell values) and records no transformation.
C1_CleaningIdempotent ==
  pc = "recleaned" => recleaned = cleanedData /\ relog = <<>>

\* C2: the value imputed into the missing cells of a numeric column is the
\* median of the column's non-missing numeric values only; the missing age of
\* scenario A is imputed with 30.
C2_MedianOfNonMissing ==
  Cleaned =>
    /\ \A c \in ColumnSet :
         \A e \in LogEntries(transformations, c, "median_imputation") :
           Len(NonMissingNumbers(input, c)) > 0 =>
             transformations[e].value = Num(median(NonMissingNumbers(input, c)))
    /\ input = ScenarioA => cleanedData[3]["x"] = IntNum(30)

\* every number of column c in the cleaned rows lies within the fences b
WithinFences(c, b) ==
  \A i \in 1..Len(cleanedData) :
    cleanedData[i][c].t = "number" =>
      /\ b.lowerBound <= cleanedData[i][c].n
      /\ cleanedData[i][c].n <= b.upperBound

\* as WithinFences, when step 3 applies to the valid values of column c
CappedColumnWithinFences(c, values) ==
  (types[c] = "numeric" /\ EnoughForCapping(Len(values))) =>
    WithinFences(c, IqrBounds(values))

\* the valid values of column c where step 3 starts, st = [rows, kept, log]
ValuesToCap(st, c) == CappingValues(st.rows, st.kept, c)

\* C3: in a numeric column with more than 10 valid values, every number of the
\* returned rows lies within the IQR fences step 3 computed, also the numbers
\* that step 4 made of formatted strings.
C3_CappedWithinBounds ==
  Cleaned =>
    \A c \in ColumnSet :
      CappedColumnWithinFences(c, ValuesToCap(BeforeCapping(input, types), c))

\* rows whose numeric column x holds `ones` cells of 1 and one cell of 100
IsScenarioC(rows, ones) ==
  /\ Len(rows) = ones + 1
  /\ Cardinality({i \in 1..Len(rows) : CleanedNumber(rows[i]["x"]) = IntNum(100)}) = 1
  /\ Cardinality({i \in 1..Len(rows) : CleanedNumber(rows[i]["x"]) = IntNum(1)}) = ones

\* the largest number of column x in the cleaned rows is m
MaxOfX(m) ==
  /\ \E i \in 1..Len(cleanedData) : cleanedData[i]["x"] = Num(m)
  /\ \A i \in 1..Len(cleanedData) :
       cleanedData[i]["x"].t = "number" /\ cleanedData[i]["x"].n <= m

\* column x was capped: an outlier_capping entry is logged and the largest
\* value left is its upper bound, which is not 100
CappedToUpperBound ==
  \E e \in LogEntries(transformations, "x", "outlier_capping") :
    /\ MaxOfX(transformations[e].upperBound)
    /\ transformations[e].upperBound # IntNum(100).n

\* C4 as stated: in scenario C (nine 1s and one 100 in 10 distinct rows) the
\* 100 is capped to the upper IQR bound and an outlier_capping is logged.
C4_ScenarioCCapped ==
  (Cleaned /\ types["x"] = "numeric" /\ IsScenarioC(input, 9)) =>
    CappedToUpperBound

\* C4 amended: the 10 rows of scenario C are left as they are (capping needs
\* more than 10 valid values): the maximum stays 100 and no outlier_capping is
\* logged; with ten 1s and one 100 in 11 rows the 100 is capped to the upper
\* IQR bound and the capping is logged.
C4_ScenarioCNeedsElevenRows ==
  (Cleaned /\ types["x"] = "numeric") =>
    /\ IsScenarioC(input, 9) =>
         /\ MaxOfX(IntNum(100).n)
         /\ LogEntries(transformations, "x", "outlier_capping") = {}
    /\ IsScenarioC(input, 10) => CappedToUpperBound

C4_ScenarioCReached ==
  Cleaned /\ types["x"] = "numeric" /\ IsScenarioC(input, 9)
    /\ Len(cleanedData) = 10

C4_ElevenRowsReached ==
  Cleaned /\ types["x"] = "numeric" /\ IsScenarioC(input, 10)
    /\ Len(cleanedData) = 11

\* C5: performAdvancedCleaning leaves the row objects of its input array with
\* the cell values they had.
C5_InputUnmodified == Cleaned => data = input

\* C6: summary.missingValues counts exactly the cells holding null, undefined,
\* the empty string, "null" or "undefined".
C6_MissingCount ==
  Ingested =>
    summary.missingValues =
      Cardinality({<<i, c>> \in (1..Len(input)) \X ColumnSet :
                     IsProfilerMissing(input[i][c])})

\* the rows no earlier row equals in every column
FirstOfValue(rows) ==
  {i \in 1..Len(rows) : \A j \in 1..(i - 1) : rows[j] # rows[i]}

\* the rows as step 1 leaves them
Imputed == ImputeColumns([rows |-> input, log |-> <<>>], Len(Columns), types).rows

\* C7: rows count as duplicates exactly when they are equal in every column:
\* the profiler counts, and the cleaning removes, the rows that equal an
\* earlier row, and no others.
C7_DuplicatesAreEqualRows ==
  /\ Ingested => summary.duplicates = Len(input) - Cardinality(FirstOfValue(input))
  /\ Cleaned => Len(cleanedData) = Cardinality(FirstOfValue(Imputed))

RemovedCount ==
  IF LogEntries(transformations, "all", "duplicate_removal") = {} THEN 0
  ELSE transformations[CHOOSE e \in LogEntries(transformations, "all",
                                               "duplicate_removal") : TRUE].count

\* C8: duplicate removal keeps the first occurrence of each distinct row, in
\* the order of the input; the rows returned are the input rows less the
\* logged removed count; of n identical rows the profiler reports n - 1
\* duplicates and the cleaning returns one.
C8_FirstOccurrenceKept ==
  /\ Cleaned =>
       /\ kept = Ascending(FirstOfValue(Imputed))
       /\ Len(cleanedData) = Len(input) - RemovedCount
  /\ (Cleaned /\ \A i \in 1..Len(input) : input[i] = input[1]) =>
       /\ summary.duplicates = Len(input) - 1
       /\ Len(cleanedData) = 1

\* C9: a column in which every cell is missing gets no imputation entry and
\* its cells are still missing markers in the rows returned, whatever type
\* was declared for it.
C9_AllMissingUntouched ==
  Cleaned =>
    \A c \in ColumnSet :
      (\A i \in 1..Len(input) : IsMissingMarker(input[i][c])) =>
        /\ LogEntries(transformations, c, "median_imputation") = {}
        /\ LogEntries(transformations, c, "mode_imputation") = {}
        /\ \A i \in 1..Len(cleanedData) : IsMissingMarker(cleanedData[i][c])

\* the type the inclusive thresholds give a column
InclusiveType(rows, column, lenient) ==
  LET sampleValues == SelectSeq(ColumnValues(rows, column), IsSampled)
      total == Len(sampleValues)
      booleans == Len(SelectSeq(sampleValues, IsBooleanValue))
      numbers == Len(SelectSeq(sampleValues, IsNumericValue))
      dates == Len(SelectSeq(sampleValues, LAMBDA v : IsDateValue(v, lenient)))
  IN IF total = 0 THEN "categorical"
     ELSE IF booleans * 10 >= 8 * total THEN "boolean"
     ELSE IF numbers * 10 >= 8 * total THEN "numeric"
     ELSE IF dates * 10 >= 7 * total THEN "datetime"
     ELSE "categorical"

\* C10: a column is boolean when at least 80% of its non-empty values are
\* boolean tokens, else numeric when at least 80% are numbers, else datetime
\* when at least 70% are dates, else categorical.
C10_InclusiveThresholds ==
  Ingested =>
    \E lenient \in BOOLEAN :
      \A c \in ColumnSet : types[c] = InclusiveType(input, c, lenient)

\* ten times rows * columns times the score the formula gives:
\* 100 * (0.4 * completeness + 0.3 * uniqueness + 0.3 * validity)
ScoreFormula(rows, cols, missing, duplicates, outliers) ==
  100 * (4 * (rows * cols - missing) + 3 * cols * (rows - duplicates)
           + 3 * cols * (rows - outliers))

\* ScoreFormula clamped to [0, 100]
ClampedFormula(raw, rows, cols) ==
  IF raw > 1000 * rows * cols THEN 1000 * rows * cols
  ELSE IF raw < 0 THEN 0
  ELSE raw

\* the fraction q equals the clamped formula of the summary s
ScoreMatches(q, s, rows, cols) ==
  /\ q.den > 0
  /\ 0 <= q.num
  /\ q.num <= 100 * q.den
  /\ q.num * 10 * rows * cols =
       q.den * ClampedFormula(ScoreFormula(rows, cols, s.missingValues,
                                           s.duplicates, s.outliers),
                              rows, cols)

\* C11: the data-quality score of an ingested dataset is a number in [0,100]
\* and equals 100 * (0.4 * completeness + 0.3 * uniqueness + 0.3 * validity),
\* clamped, for the missing, duplicate and outlier counts of the summary.
C11_ScoreIsClampedFormula ==
  Ingested =>
    ScoreMatches(summary.dataQualityScore, summary, Len(input), Len(Columns))

C11_OutliersScored ==
  /\ Ingested
  /\ summary.outliers > 0
  /\ summary.dataQualityScore.num < 100 * summary.dataQualityScore.den

Analysed == pc = "analysed"

Selected == pc = "selected"

\* every diagonal entry of the matrix m is exactly 1
DiagonalIsOne(m) ==
  \A pr \in DOMAIN m : pr[1] = pr[2] => m[pr] = CorrOne

\* C12: in the correlation matrix of the summarizer and in that of the feature
\* selector the diagonal entry of every numeric column is exactly 1, also for
\* a constant column and for a column of fewer than two valid values.
C12_DiagonalIsOne ==
  /\ (Analysed /\ ~insights.raised) =>
       /\ DOMAIN insights.correlations = NumericColumns(types) \X NumericColumns(types)
       /\ DiagonalIsOne(insights.correlations)
  /\ Selected => DiagonalIsOne(featureSelection)

\* the rows in which both columns hold valid numbers
BothValid(rows, a, b) ==
  SelectSeq(rows, LAMBDA row : ToNumber(row[a]).t = "number"
                                 /\ ToNumber(row[b]).t = "number")

\* the entry of the summarizer computed from the rows valid in both columns
SummarizerPairwise(rows, a, b) ==
  CorrelationOfCells(NumberCells(rows, a), NumberCells(rows, b), a = b)

\* the entry of the feature selector computed from the rows valid in both
FeaturePairwise(rows, a, b) ==
  FeatureCorrelation(NumberCells(rows, a), NumberCells(rows, b))

\* C13: the correlation reported for two numeric columns is the correlation
\* of the rows in which both hold valid numbers, the two values of a pair
\* taken from the same row.
C13_PairwiseComplete ==
  /\ (Analysed /\ ~insights.raised) =>
       \A pr \in DOMAIN insights.correlations :
         insights.correlations[pr] =
           SummarizerPairwise(BothValid(cleanedData, pr[1], pr[2]), pr[1], pr[2])
  /\ Selected =>
       \A pr \in DOMAIN featureSelection :
         featureSelection[pr] =
           FeaturePairwise(BothValid(cleanedData, pr[1], pr[2]), pr[1], pr[2])

\* C14: generateAdvancedEDAInsights returns for every cleaned dataset, also
\* when numeric columns hold cells that are no numbers in different rows,
\* when a column is constant and when a column has no valid value.
C14_InsightsNeverRaise == Analysed => ~insights.raised

Trained == trainPc = "trained"

Recommended(models) == {i \in 1..Len(models) : models[i].recommended}

\* the position of a model's name in the order of training
TrainingOrder(name) == CHOOSE i \in 1..Len(ModelNames) : ModelNames[i] = name

\* C15: a non-empty list returned by trainModels has exactly one recommended
\* entry; it has the maximum accuracy and is, among the models of that
\* accuracy, the first trained; the list is sorted by non-increasing accuracy
\* and the recommended entry is its first.
C15_OneRecommendedBest ==
  (Trained /\ mlResults.models # <<>>) =>
    /\ Recommended(mlResults.models) = {1}
    /\ \A i \in 1..Len(mlResults.models) :
         /\ ~MoreAccurate(mlResults.models[i], mlResults.models[1])
         /\ (i > 1 /\ ~MoreAccurate(mlResults.models[1], mlResults.models[i])) =>
              TrainingOrder(mlResults.models[1].name)
                < TrainingOrder(mlResults.models[i].name)
    /\ \A i \in 1..(Len(mlResults.models) - 1) :
         ~MoreAccurate(mlResults.models[i + 1], mlResults.models[i])

\* three models of one accuracy were returned
C15_TieReached ==
  /\ Trained
  /\ Len(mlResults.models) = 3
  /\ \A i \in 1..3 : mlResults.models[i].accuracy = mlResults.models[1].accuracy

\* C17: trainModels never raises; without rows or without numeric feature
\* columns it returns the empty list; otherwise the models whose training or
\* prediction threw are left out and all the others are returned, also for a
\* single row, where the training split is empty.
C17_TrainModelsNeverRaises ==
  Trained =>
    /\ ~mlResults.raised
    /\ (trainInput.rows = 0 \/ trainInput.features = 0) => mlResults.models = <<>>
    /\ (trainInput.rows > 0 /\ trainInput.features > 0) =>
         {mlResults.models[i].name : i \in 1..Len(mlResults.models)}
           = {ModelNames[i] : i \in 1..Len(ModelNames)} \ mlResults.thrown

\* a single row: the logistic regression threw and two models were returned
C17_SingleRowReached ==
  /\ Trained
  /\ trainInput.rows = 1
  /\ trainInput.features > 0
  /\ mlResults.thrown # {}
  /\ Len(mlResults.models) = 2

\* C16: the modelResults of every stored AnalysisResults have exactly one
\* recommended entry, and no other entry is strictly more accurate.
C16_RecommendedIsBest ==
  app.analysisResults # NoAnalysis =>
    \E r \in 1..Len(app.analysisResults.modelResults) :
      /\ Recommended(app.analysisResults.modelResults) = {r}
      /\ \A i \in 1..Len(app.analysisResults.modelResults) :
           ~MoreAccurate(app.analysisResults.modelResults[i],
                         app.analysisResults.modelResults[r])

\* the promise of processFileData for a file that is unsupported or empty
FailedIngestion(e) ==
  /\ e.kind = "processFileData"
  /\ \/ AppFiles[e.data.file].extension \notin SupportedExtensions
     \/ AppFiles[e.data.file].rows = <<>>

\* C18: when processFileData rejects, dataset, cleanedData, analysisResults,
\* currentStep and completedSteps keep their values, nothing is scheduled,
\* and isProcessing is reset to false.
C18_FailedIngestionKeepsState ==
  [][\A e \in scheduled \ scheduled' :
       FailedIngestion(e) =>
         /\ app' = [app EXCEPT !.isProcessing = FALSE]
         /\ scheduled' = scheduled \ {e}]_vars

\* an upload was rejected after an earlier run had completed, whose results
\* are still there
C18_RejectedAfterRun ==
  /\ lastEvent = "rejected"
  /\ ~app.isProcessing
  /\ app.dataset # NoDataset
  /\ app.analysisResults # NoAnalysis
  /\ app.currentStep = 3

\* C19: every run ends with isProcessing = false.
C19_RunsEnd == app.isProcessing ~> ~app.isProcessing

\* C20: with real-time updates enabled, when no run is in progress the
\* cleaned rows and the analysis results are those of the dataset shown.
C20_ResultsOfDataset ==
  ( /\ app.isRealTimeEnabled
    /\ ~app.isProcessing
    /\ app.dataset # NoDataset
    /\ app.analysisResults # NoAnalysis ) =>
      /\ app.analysisResults.from = app.dataset.id
      /\ app.cleanedData = app.dataset.id

\* the log has an outlier_capping entry for the column
WasCapped(column) ==
  \E k \in 1..Len(transformations) :
    /\ transformations[k].column = column
    /\ transformations[k].transformation = "outlier_capping"

\* C21: a cell that held false or the number 0 when parsed holds it in the
\* cleaned data too (a number unless the column was capped): imputation
\* changes missing cells only.
C21_RealValuesKept ==
  pc = "cleaned" =>
    \A j \in 1..Len(kept) : \A c \in ColumnSet :
      /\ input[kept[j]][c] = Bool(FALSE) => cleanedData[j][c] = Bool(FALSE)
      /\ (input[kept[j]][c] = IntNum(0) /\ types[c] = "numeric" /\ ~WasCapped(c)) =>
           cleanedData[j][c] = IntNum(0)

\* the positions of the log entries of the given transformations
EntriesOf(names) ==
  {k \in 1..Len(transformations) : transformations[k].transformation \in names}

\* the rows as step 1 leaves them, computed from the parsed cells
ImputedInput ==
  ImputeColumns([rows |-> input, log |-> <<>>], Len(Columns), types).rows

\* the numbers the rows kept hold in a column after step 1
KeptValues(column) ==
  ValidNumbers([i \in 1..Len(kept) |-> CleanedNumber(ImputedInput[kept[i]][column])])

\* C22: the steps run in the order impute, dedupe, cap: the rows kept are the
\* first occurrences of the keys of the imputed rows, the fences logged are
\* those of the values of the rows kept, and in the log the imputations come
\* first, then at most one duplicate_removal, then the outlier cappings.
C22_FixedOrder ==
  pc = "cleaned" =>
    /\ kept = Ascending(FirstOfKey(ImputedInput))
    /\ \A k \in EntriesOf({"outlier_capping"}) :
         [ lowerBound |-> transformations[k].lowerBound,
           upperBound |-> transformations[k].upperBound ]
           = IqrBounds(KeptValues(transformations[k].column))
    /\ Cardinality(EntriesOf({"duplicate_removal"})) <= 1
    /\ \A i \in EntriesOf({"median_imputation", "mode_imputation"}) :
         \A d \in EntriesOf({"duplicate_removal"}) : i < d
    /\ \A d \in EntriesOf({"duplicate_removal", "median_imputation", "mode_imputation"}) :
         \A c \in EntriesOf({"outlier_capping"}) : d < c

\* a cleaning that imputed, removed a duplicate and capped an outlier
C22_AllThreeLogged ==
  /\ pc = "cleaned"
  /\ EntriesOf({"median_imputation"}) # {}
  /\ EntriesOf({"duplicate_removal"}) # {}
  /\ EntriesOf({"outlier_capping"}) # {}

\* C23: a refresh callback runs only while real-time updates are enabled;
\* after stopRealTimeUpdates none changes dataset, cleanedData or
\* analysisResults.
C23_NoRefreshAfterStop == lastEvent = "refresh" => app.isRealTimeEnabled

\* the labels were counted by majorityClass or majorityVote
MajorityCalled == call.op \in {"majorityClass", "majorityVote"}

\* C24: when 0 and 1 are tied for the highest count the smaller label, 0, is
\* returned, and majorityClass of no label is 0.
C24_TieGivesSmallerLabel ==
  MajorityCalled =>
    /\ (CountOfLabel(call.labels, 0) = CountOfLabel(call.labels, 1)) =>
         result.label = 0

TreeFitted == call.op = "DecisionTree"

RECURSIVE TreeDepth(_)
TreeDepth(node) ==
  IF node.leaf THEN 0
  ELSE 1 + (IF TreeDepth(node.left) > TreeDepth(node.right)
              THEN TreeDepth(node.left) ELSE TreeDepth(node.right))

\* the training rows that reach a node, given those that reach its parent
RowsGoing(samples, node, left) ==
  SelectSeq(samples,
            LAMBDA s : (s.x[node.feature] # NotANumber
                          /\ 2 * s.x[node.feature] <= node.threshold) = left)

\* every internal node sends a training row to each child
RECURSIVE SplitsRows(_, _)
SplitsRows(node, samples) ==
  node.leaf \/
    /\ RowsGoing(samples, node, TRUE) # <<>>
    /\ RowsGoing(samples, node, FALSE) # <<>>
    /\ SplitsRows(node.left, RowsGoing(samples, node, TRUE))
    /\ SplitsRows(node.right, RowsGoing(samples, node, FALSE))

\* C25: DecisionTree.fit returns a tree of depth at most maxDepth whose
\* internal nodes each send a training row to both children, and predict
\* gives a label for every sample (0 after an empty training set).
C25_TreeIsBounded ==
  TreeFitted =>
    /\ TreeDepth(result.tree) <= call.maxDepth
    /\ SplitsRows(result.tree, call.samples)
    /\ \A x \in DOMAIN result.predictions : result.predictions[x] \in Labels
    /\ call.samples = <<>> => result.tree = [leaf |-> TRUE, label |-> 0]

\* a tree of two levels was grown and predicts both labels
C25_DeepTreeGrown ==
  /\ TreeFitted
  /\ TreeDepth(result.tree) = 2
  /\ {result.predictions[x] : x \in DOMAIN result.predictions} = Labels

AnomaliesCalled == result.op = "detectAnomalies"

\* the rows whose score exceeds 3
RowsAboveThree(rows, numericColumns) ==
  {i \in 1..Len(rows) :
     ScoreExceedsThree(rows, i, involvedFeatures(rows, i, numericColumns))}

ListedRows(anomalies) == {anomalies[k].index : k \in 1..Len(anomalies)}

\* C26: for a dataset with at least one numeric column the anomaly list
\* holds exactly the rows whose score exceeds 3, cut to the 10 highest
\* scores, in non-increasing score order, and never more than 10 entries
C26_AnomaliesAreRowsAboveThree ==
  (AnomaliesCalled /\ Len(NumericColumnList(call.types)) >= 1) =>
    /\ Len(result.anomalies) <= 10
    /\ ListedRows(result.anomalies)
         \subseteq RowsAboveThree(call.rows, NumericColumnList(call.types))
    /\ Len(result.anomalies)
         = Min(10, Cardinality(RowsAboveThree(call.rows, NumericColumnList(call.types))))
    /\ \A k \in 1..(Len(result.anomalies) - 1) :
         result.anomalies[k].score >= result.anomalies[k + 1].score

FeaturesCalled == result.op = "selectBestFeatures"

IsDescending(scores) ==
  \A k \in 1..(Len(scores) - 1) :
    /\ scores[k].score.t = "number"
    /\ scores[k + 1].score.t = "number"
    /\ ScoreAtLeast(scores[k].score, scores[k + 1].score)
    /\ scores[k].score = scores[k + 1].score => scores[k].feature < scores[k + 1].feature

\* C27: featureScores is in non-increasing score order with equal scores in
\* column order, and selectedFeatures is exactly the first min(10, column
\* count) features of it, also with fewer than two numeric columns
C27_SortedAndFirstTen ==
  FeaturesCalled =>
    /\ IsDescending(result.selection.featureScores)
    /\ result.selection.selectedFeatures
         = [k \in 1..Min(10, Len(call.table)) |->
              result.selection.featureScores[k].feature]

\* C28: every feature score is a number in [0, 1]
C28_ScoresInUnitInterval ==
  FeaturesCalled =>
    \A k \in 1..Len(result.selection.featureScores) :
      /\ result.selection.featureScores[k].score.t = "number"
      /\ result.selection.featureScores[k].score.num >= 0
      /\ result.selection.featureScores[k].score.num
           <= result.selection.featureScores[k].score.den

SummaryCalled == result.op = "numericSummary"

\* the valid numbers of the column summarised
SummarisedNumbers == numValues(SelectSeq(call.cells, IsSummaryValid))

\* C29: skewness is the number 0 with fewer than 3 valid values or standard
\* deviation 0, kurtosis is the number 0 with fewer than 4 valid values or
\* standard deviation 0, also for a column with no valid value
C29_MomentsZeroWhenDegenerate ==
  SummaryCalled =>
    /\ (Len(SummarisedNumbers) < 3 \/ SpreadOf(SummarisedNumbers) = 0)
         => result.summary.skewness = ZeroMoment
    /\ (Len(SummarisedNumbers) < 4 \/ SpreadOf(SummarisedNumbers) = 0)
         => result.summary.kurtosis = ZeroMoment

RecommendationsCalled == result.op = "recommendations"

QualityMessages == {"excellent", "good", "needsImprovement"}

\* the message the thresholds name for a score that is a number
NamedMessage(quality) ==
  IF quality.num > 90 * quality.den THEN "excellent"
  ELSE IF quality.num >= 80 * quality.den THEN "good"
  ELSE "needsImprovement"

\* C30: exactly one data-quality message is emitted: 'excellent' above 90,
\* 'good' from 80 to 90 inclusive, 'needs improvement' below 80
C30_QualityMessageByThreshold ==
  (RecommendationsCalled /\ result.overall.t = "number") =>
    /\ Cardinality({k \in 1..Len(result.recommendations) :
                      result.recommendations[k] \in QualityMessages}) = 1
    /\ result.recommendations[1] = NamedMessage(result.overall)

====
